---- MODULE Spec2Model ----
(***************************************************************************)
(* Google Maps MCP server (src/index.ts): the call-tool dispatcher, the    *)
(* seven transcoders and the startup code, as a state machine.            *)
(*                                                                         *)
(* JavaScript values are tagged records, one tag per JavaScript type, so   *)
(* that values of different types can be compared:                         *)
(*   [undef |-> TRUE]  undefined        [null |-> TRUE]   null             *)
(*   [bool |-> b]      boolean          [num |-> n]       integer number   *)
(*   [dec |-> d]       non-integer number (sign, integer part, fraction)   *)
(*   [nan |-> TRUE]    NaN              [str |-> "..."]   string           *)
(*   [chars |-> <<>>]  string held as its characters (waypoints, durations)*)
(*   [obj |-> r]       object, r maps own keys to values                   *)
(*   [arr |-> s]       array            [fn |-> "name"]   function/builtin *)
(*   [json |-> v]      the string that is the JSON text of v               *)
(*   [concat |-> s]    the string that concatenates the strings of s       *)
(***************************************************************************)
EXTENDS Integers, Sequences, FiniteSets, TLC

VARIABLES
    serverState,   \* "starting" | "running" | "exited"   (module load, runServer)
    exitCode,      \* the status process.exit was called with (Undefined while alive)
    tools,         \* the MAPS_TOOLS array
    listed,        \* the result of the list-tools request being answered (or NotListed)
    apiKey,        \* GOOGLE_MAPS_API_KEY constant, set by getApiKey at startup
    envKey,        \* process.env.GOOGLE_MAPS_API_KEY
    pc,            \* per call: position of the call-tool handler
    request,       \* per call: [name, arguments] of the call-tool request
    outbound,      \* per call: the HTTP request handed to fetch (or NoRequest)
    fetches,       \* per call: number of fetch invocations made for the call
    response,      \* per call: the upstream HTTP response (or NoResponse)
    raised,        \* per call: message of the exception raised inside the handler ("" if none)
    overlapped,    \* per call: another call was suspended at an await while this one was in flight
    outcome        \* per call: what the handler's promise settled to

vars == <<serverState, exitCode, tools, listed, apiKey, envKey, pc, request, outbound, fetches,
          response, raised, overlapped, outcome>>

-----------------------------------------------------------------------------
(* Bounds of the model *)

\* longest origins / destinations list of a distance-matrix call
MaxWaypoints == 2
\* longest upstream list (matrix elements, legacy results, places)
MaxItems == 2

-----------------------------------------------------------------------------
(* JavaScript values *)

Undefined == [undef |-> TRUE]
Null == [null |-> TRUE]
NaN == [nan |-> TRUE]
Bool(b) == [bool |-> b]
Num(n) == [num |-> n]
Str(s) == [str |-> s]
Chars(s) == [chars |-> s]
Obj(r) == [obj |-> r]
Arr(s) == [arr |-> s]
Fn(name) == [fn |-> name]
EmptyObj == [obj |-> <<>>]

IsUndefined(v) == DOMAIN v = {"undef"}
IsNull(v) == DOMAIN v = {"null"}
IsNullish(v) == IsUndefined(v) \/ IsNull(v)
IsObj(v) == DOMAIN v = {"obj"}
IsArr(v) == DOMAIN v = {"arr"}
IsFn(v) == DOMAIN v = {"fn"}
IsNum(v) == DOMAIN v = {"num"}
\* typeof v === "string": plain strings, character strings and JSON texts
IsString(v) == DOMAIN v \in {{"str"}, {"chars"}, {"json"}, {"concat"}}
IsBoolean(v) == DOMAIN v = {"bool"}

\* ToBoolean, as used by `?:`, `||`, `!` and `if`
Truthy(v) ==
    CASE DOMAIN v = {"undef"} -> FALSE
      [] DOMAIN v = {"null"} -> FALSE
      [] DOMAIN v = {"nan"} -> FALSE
      [] DOMAIN v = {"bool"} -> v.bool
      [] DOMAIN v = {"num"} -> v.num # 0
      [] DOMAIN v = {"str"} -> v.str # ""
      [] DOMAIN v = {"chars"} -> v.chars # <<>>
      [] OTHER -> TRUE

\* a || b
OrElse(a, b) == IF Truthy(a) THEN a ELSE b

\* members every object literal inherits from Object.prototype
ObjectPrototypeKeys == {"constructor", "toString", "valueOf", "hasOwnProperty"}

\* v[k] / v.k for an object v that is not null or undefined: own property,
\* else the inherited Object.prototype member, else undefined
Get(v, k) ==
    IF IsObj(v) /\ k \in DOMAIN v.obj THEN v.obj[k]
    ELSE IF IsObj(v) /\ k \in ObjectPrototypeKeys THEN Fn(k)
    ELSE Undefined

\* v?.k
OptGet(v, k) == IF IsNullish(v) THEN Undefined ELSE Get(v, k)

\* a[i] for a zero-based index i of an array (undefined when out of range)
At(a, i) ==
    IF IsArr(a) /\ i >= 0 /\ i < Len(a.arr) THEN a.arr[i + 1] ELSE Undefined

\* JSON.stringify, by what it keeps: a key whose value is undefined or a
\* function is dropped from its object; undefined, functions and NaN inside
\* an array become null
RECURSIVE JsonValue(_)
JsonValue(v) ==
    CASE IsObj(v) ->
            Obj([k \in {j \in DOMAIN v.obj : ~ IsUndefined(v.obj[j]) /\ ~ IsFn(v.obj[j])}
                    |-> JsonValue(v.obj[k])])
      [] IsArr(v) ->
            Arr([i \in 1..Len(v.arr) |->
                    IF IsUndefined(v.arr[i]) \/ IsFn(v.arr[i]) THEN Null
                    ELSE JsonValue(v.arr[i])])
      [] DOMAIN v = {"nan"} -> Null
      [] OTHER -> v

Stringify(v) == [json |-> JsonValue(v)]

\* keys of the object a JSON text holds
JsonKeys(text) == DOMAIN text.json.obj

-----------------------------------------------------------------------------
(* Results and exceptions *)

\* { content: [{ type: "text", text }], isError }
ToolResult(text, isError) ==
    [content |-> <<[type |-> "text", text |-> text]>>, isError |-> isError]

\* a handler either returns a tool result or throws (its promise rejects)
Return(result) == [kind |-> "returned", result |-> result]
Throw(msg) == [kind |-> "rejected", message |-> msg]
Pending == [kind |-> "pending"]

Returned(o) == o.kind = "returned"
Rejected(o) == o.kind = "rejected"

-----------------------------------------------------------------------------
(* HTTP *)

NoRequest == [sent |-> FALSE]
NoResponse == [received |-> FALSE]

\* the body of a response is its text: the JSON text of a value, [json |-> v],
\* or a plain string that JSON.parse rejects (an HTML error page)
JsonBody(v) == [json |-> v]
HtmlBody == [str |-> "<html>Service Unavailable</html>"]
IsJsonText(b) == DOMAIN b = {"json"}

HttpResponse(status, statusText, body) ==
    [received |-> TRUE, status |-> status, statusText |-> statusText, body |-> body]

\* response.ok
ResponseOk(r) == r.status >= 200 /\ r.status <= 299

JsonParseError == "Unexpected token < in JSON at position 0"
FetchError == "request to upstream failed, reason: getaddrinfo ENOTFOUND"

-----------------------------------------------------------------------------
(* Strings *)

Digits == {"0", "1", "2", "3", "4", "5", "6", "7", "8", "9"}
\* the \s class, as far as the waypoint alphabet of this model goes
Whitespace == {" "}

DigitVal(c) ==
    CASE c = "0" -> 0 [] c = "1" -> 1 [] c = "2" -> 2 [] c = "3" -> 3 [] c = "4" -> 4
      [] c = "5" -> 5 [] c = "6" -> 6 [] c = "7" -> 7 [] c = "8" -> 8 [] c = "9" -> 9

DigitStr(d) ==
    CASE d = 0 -> "0" [] d = 1 -> "1" [] d = 2 -> "2" [] d = 3 -> "3" [] d = 4 -> "4"
      [] d = 5 -> "5" [] d = 6 -> "6" [] d = 7 -> "7" [] d = 8 -> "8" [] d = 9 -> "9"

AllIn(s, S) == \A i \in 1..Len(s) : s[i] \in S

\* value of a sequence of decimal digits (0 for the empty sequence)
RECURSIVE IntOf(_)
IntOf(s) == IF s = <<>> THEN 0 ELSE 10 * IntOf(SubSeq(s, 1, Len(s) - 1)) + DigitVal(s[Len(s)])

\* String(n) for an integer n
RECURSIVE NatToStr(_)
NatToStr(n) == IF n < 10 THEN DigitStr(n) ELSE NatToStr(n \div 10) \o DigitStr(n % 10)
IntToStr(n) == IF n < 0 THEN "-" \o NatToStr(0 - n) ELSE NatToStr(n)

\* `${v}` inside a template literal
TemplateStr(v) ==
    CASE DOMAIN v = {"str"} -> v.str
      [] DOMAIN v = {"undef"} -> "undefined"
      [] DOMAIN v = {"null"} -> "null"
      [] DOMAIN v = {"num"} -> IntToStr(v.num)
      [] DOMAIN v = {"nan"} -> "NaN"
      [] DOMAIN v = {"bool"} -> IF v.bool THEN "true" ELSE "false"
      [] OTHER -> "[object Object]"

\* index of the first occurrence of character c in s, 0 if there is none
FirstIndex(s, c) ==
    IF \E i \in 1..Len(s) : s[i] = c
    THEN CHOOSE i \in 1..Len(s) : s[i] = c /\ \A j \in 1..(i - 1) : s[j] # c
    ELSE 0

\* s.replace(c, ''): the first occurrence of the one-character pattern removed
ReplaceFirst(s, c) ==
    LET i == FirstIndex(s, c) IN
    IF i = 0 THEN s ELSE SubSeq(s, 1, i - 1) \o SubSeq(s, i + 1, Len(s))

\* number of leading characters of s that lie in S
RECURSIVE LeadingIn(_, _)
LeadingIn(s, S) == IF s # <<>> /\ s[1] \in S THEN 1 + LeadingIn(Tail(s), S) ELSE 0

DropLeading(s, S) == SubSeq(s, LeadingIn(s, S) + 1, Len(s))

\* (\.X+)? over the whole of s, X the character class S
OptFraction(s, S) ==
    s = <<>> \/ (Len(s) >= 2 /\ s[1] = "." /\ AllIn(Tail(s), S))

\* parseInt(s): leading white space, a sign, then the longest run of
\* digits; NaN when there is no digit
ParseInt(s) ==
    LET t == DropLeading(s, Whitespace)
        neg == t # <<>> /\ t[1] = "-"
        u == IF t # <<>> /\ t[1] \in {"-", "+"} THEN Tail(t) ELSE t
        n == LeadingIn(u, Digits)
    IN  IF n = 0 THEN NaN
        ELSE Num((IF neg THEN -1 ELSE 1) * IntOf(SubSeq(u, 1, n)))

\* s without its trailing "0" characters
RECURSIVE StripTrailingZeros(_)
StripTrailingZeros(s) ==
    IF s # <<>> /\ s[Len(s)] = "0" THEN StripTrailingZeros(SubSeq(s, 1, Len(s) - 1)) ELSE s

\* Number(s) for a decimal numeral with optional surrounding white space and
\* sign: an integer number, or sign / integer part / fraction digits
ToNumber(s) ==
    LET t == DropLeading(s, Whitespace)
        neg == t # <<>> /\ t[1] = "-"
        u == IF t # <<>> /\ t[1] \in {"-", "+"} THEN Tail(t) ELSE t
        n == LeadingIn(u, Digits)
        rest == SubSeq(u, n + 1, Len(u))
        frac == IF rest # <<>> /\ rest[1] = "." THEN StripTrailingZeros(Tail(rest)) ELSE <<>>
        wellFormed == (n > 0 \/ Len(rest) > 1) /\ OptFraction(rest, Digits)
    IN  IF ~ wellFormed THEN NaN
        ELSE IF frac = <<>> THEN Num((IF neg THEN -1 ELSE 1) * IntOf(SubSeq(u, 1, n)))
        ELSE [dec |-> [neg |-> neg, int |-> IntOf(SubSeq(u, 1, n)), frac |-> frac]]

\* s.split(','): the pieces of s between its commas
RECURSIVE SplitComma(_)
SplitComma(s) ==
    LET i == FirstIndex(s, ",") IN
    IF i = 0 THEN <<s>>
    ELSE <<SubSeq(s, 1, i - 1)>> \o SplitComma(SubSeq(s, i + 1, Len(s)))

\* `${(meters / 1000).toFixed(1)} km`, for meters a multiple of 100 (where
\* toFixed has nothing to round)
KmText(meters) ==
    Str(NatToStr(meters \div 1000) \o "." \o DigitStr((meters \div 100) % 10) \o " km")

-----------------------------------------------------------------------------
(* coordRegex, lines 761 and 945:                                          *)
(* /^[-+]?([1-8]?\d(\.\d+)?|90(\.0+)?),\s*[-+]?(180(\.0+)?|((1[0-7]\d)|([1-9]?\d))(\.\d+)?)$/ *)

\* ([1-8]?\d(\.\d+)?|90(\.0+)?) over the whole of s
CoordLat(s) ==
    \/ Len(s) >= 1 /\ s[1] \in Digits /\ OptFraction(Tail(s), Digits)
    \/ Len(s) >= 2 /\ s[1] \in {"1", "2", "3", "4", "5", "6", "7", "8"} /\ s[2] \in Digits
          /\ OptFraction(SubSeq(s, 3, Len(s)), Digits)
    \/ Len(s) >= 2 /\ s[1] = "9" /\ s[2] = "0" /\ OptFraction(SubSeq(s, 3, Len(s)), {"0"})

\* (180(\.0+)?|((1[0-7]\d)|([1-9]?\d))(\.\d+)?) over the whole of s
CoordLng(s) ==
    \/ Len(s) >= 3 /\ s[1] = "1" /\ s[2] = "8" /\ s[3] = "0"
          /\ OptFraction(SubSeq(s, 4, Len(s)), {"0"})
    \/ Len(s) >= 3 /\ s[1] = "1" /\ s[2] \in {"0", "1", "2", "3", "4", "5", "6", "7"}
          /\ s[3] \in Digits /\ OptFraction(SubSeq(s, 4, Len(s)), Digits)
    \/ Len(s) >= 2 /\ s[1] \in (Digits \ {"0"}) /\ s[2] \in Digits
          /\ OptFraction(SubSeq(s, 3, Len(s)), Digits)
    \/ Len(s) >= 1 /\ s[1] \in Digits /\ OptFraction(Tail(s), Digits)

\* [-+]? in front of a numeral that cannot itself start with a sign
StripSign(s, signs) == IF s # <<>> /\ s[1] \in signs THEN Tail(s) ELSE s

\* coordRegex with -? in place of [-+]?
coordRegexMinusOnly(s) ==
    LET i == FirstIndex(s, ",") IN
    /\ i > 0
    /\ CoordLat(StripSign(SubSeq(s, 1, i - 1), {"-"}))
    /\ CoordLng(StripSign(DropLeading(SubSeq(s, i + 1, Len(s)), Whitespace), {"-"}))

\* coordRegex.test(s)
coordRegex(s) ==
    LET i == FirstIndex(s, ",") IN
    /\ i > 0
    /\ CoordLat(StripSign(SubSeq(s, 1, i - 1), {"-", "+"}))
    /\ CoordLng(StripSign(DropLeading(SubSeq(s, i + 1, Len(s)), Whitespace), {"-", "+"}))

\* the waypoint built from a string by handleDistanceMatrix (lines 763-783,
\* 785-805, inside { waypoint: ... }) and handleDirections (947-973)
Waypoint(w) ==
    IF DOMAIN w = {"chars"} /\ coordRegex(w.chars)
    THEN LET parts == SplitComma(w.chars) IN
         Obj([location |-> Obj([latLng |->
                Obj([latitude |-> ToNumber(parts[1]), longitude |-> ToNumber(parts[2])])])])
    ELSE Obj([address |-> w])

-----------------------------------------------------------------------------
(* Outbound requests *)

\* what fetch is called with: the URL with its query parameters, the
\* headers that carry the key and the field mask, and the JSON body
HttpRequest(method, url, query, headers, body) ==
    [sent |-> TRUE, method |-> method, url |-> url, query |-> query,
     headers |-> headers, body |-> body]

NoHeaders == <<>>
NoQuery == <<>>

TypeErrorReading(what, prop) ==
    "Cannot read properties of " \o what \o " (reading '" \o prop \o "')"

\* the message of the TypeError that reading property prop of v raises
\* (v is null or undefined)
ReadError(v, prop) == TypeErrorReading(TemplateStr(v), prop)

DestructureError == "Cannot destructure 'request.params.arguments' as it is undefined."

-----------------------------------------------------------------------------
(* getPriceLevelValue, lines 429-439 *)

priceLevelMap ==
    Obj([PRICE_LEVEL_FREE |-> Num(0),
         PRICE_LEVEL_INEXPENSIVE |-> Num(1),
         PRICE_LEVEL_MODERATE |-> Num(2),
         PRICE_LEVEL_EXPENSIVE |-> Num(3),
         PRICE_LEVEL_VERY_EXPENSIVE |-> Num(4)])

\* priceLevelMap[priceLevel] ?? 0
getPriceLevelValue(priceLevel) ==
    LET v == Get(priceLevelMap, priceLevel.str) IN
    IF IsNullish(v) THEN Num(0) ELSE v

-----------------------------------------------------------------------------
(* travel modes, lines 749-758 and 929-938 *)

travelModeMap ==
    Obj([driving |-> Str("DRIVE"),
         walking |-> Str("WALK"),
         bicycling |-> Str("BICYCLE"),
         transit |-> Str("TRANSIT"),
         two_wheeler |-> Str("TWO_WHEELER")])

\* the default parameter value: mode = "driving" when the argument is undefined
ModeParam(mode) == IF IsUndefined(mode) THEN Str("driving") ELSE mode

\* travelModeMap[mode] || "DRIVE"
googleTravelMode(mode) ==
    OrElse(Get(travelModeMap, TemplateStr(ModeParam(mode))), Str("DRIVE"))

\* routingPreference added for DRIVE alone
WithRoutingPreferenceDriveOnly(body, travelMode) ==
    IF travelMode = Str("DRIVE")
    THEN [k \in DOMAIN body \cup {"routingPreference"} |->
            IF k = "routingPreference" THEN Str("TRAFFIC_AWARE") ELSE body[k]]
    ELSE body

\* lines 814-818 and 989-993: routingPreference is added for DRIVE and TWO_WHEELER
WithRoutingPreference(body, travelMode) ==
    IF travelMode = Str("DRIVE") \/ travelMode = Str("TWO_WHEELER")
    THEN [k \in DOMAIN body \cup {"routingPreference"} |->
            IF k = "routingPreference" THEN Str("TRAFFIC_AWARE") ELSE body[k]]
    ELSE body

-----------------------------------------------------------------------------
(* handleGeocode, lines 442-471 *)

GeocodeUrl == "https://maps.googleapis.com/maps/api/geocode/json"

handleGeocodeRequest(address, key) ==
    Return(HttpRequest("GET", GeocodeUrl,
        <<<<"address", TemplateStr(address)>>, <<"key", TemplateStr(key)>>>>,
        NoHeaders, Undefined))

\* handleGeocode with the error flag of its failure result left false
handleGeocodeResponseUnflagged(data) ==
    IF IsNullish(data) THEN Throw(ReadError(data, "status"))
    ELSE Return(ToolResult(
            Str("Geocoding failed: "
                \o TemplateStr(OrElse(Get(data, "error_message"), Get(data, "status")))),
            FALSE))

\* lines 450-470, data the parsed body
handleGeocodeResponse(data) ==
    IF IsNullish(data) THEN Throw(ReadError(data, "status"))
    ELSE IF Get(data, "status") # Str("OK")
    THEN Return(ToolResult(
            Str("Geocoding failed: "
                \o TemplateStr(OrElse(Get(data, "error_message"), Get(data, "status")))),
            TRUE))
    ELSE LET results == Get(data, "results")
             first == At(results, 0)
             geometry == Get(first, "geometry")
         IN  IF IsNullish(results) THEN Throw(ReadError(results, "0"))
             ELSE IF IsNullish(first) THEN Throw(ReadError(first, "geometry"))
             ELSE IF IsNullish(geometry) THEN Throw(ReadError(geometry, "location"))
             ELSE Return(ToolResult(
                    Stringify(Obj([location |-> Get(geometry, "location"),
                                   formatted_address |-> Get(first, "formatted_address"),
                                   place_id |-> Get(first, "place_id")])),
                    FALSE))

-----------------------------------------------------------------------------
(* handleReverseGeocode, lines 473-502 *)

handleReverseGeocodeRequest(latitude, longitude, key) ==
    Return(HttpRequest("GET", GeocodeUrl,
        <<<<"latlng", TemplateStr(latitude) \o "," \o TemplateStr(longitude)>>,
          <<"key", TemplateStr(key)>>>>,
        NoHeaders, Undefined))

\* handleReverseGeocode reading the last result in place of results[0]
handleReverseGeocodeResponseLast(data) ==
    IF IsNullish(data) THEN Throw(ReadError(data, "status"))
    ELSE IF Get(data, "status") # Str("OK")
    THEN Return(ToolResult(
            Str("Reverse geocoding failed: "
                \o TemplateStr(OrElse(Get(data, "error_message"), Get(data, "status")))),
            TRUE))
    ELSE LET results == Get(data, "results")
             last == IF IsArr(results) THEN At(results, Len(results.arr) - 1) ELSE Undefined
         IN  IF IsNullish(results) THEN Throw(ReadError(results, "0"))
             ELSE IF IsNullish(last) THEN Throw(ReadError(last, "formatted_address"))
             ELSE Return(ToolResult(
                    Stringify(Obj([formatted_address |-> Get(last, "formatted_address"),
                                   place_id |-> Get(last, "place_id"),
                                   address_components |-> Get(last, "address_components")])),
                    FALSE))

\* lines 481-501, data the parsed body
handleReverseGeocodeResponse(data) ==
    IF IsNullish(data) THEN Throw(ReadError(data, "status"))
    ELSE IF Get(data, "status") # Str("OK")
    THEN Return(ToolResult(
            Str("Reverse geocoding failed: "
                \o TemplateStr(OrElse(Get(data, "error_message"), Get(data, "status")))),
            TRUE))
    ELSE LET results == Get(data, "results")
             first == At(results, 0)
         IN  IF IsNullish(results) THEN Throw(ReadError(results, "0"))
             ELSE IF IsNullish(first) THEN Throw(ReadError(first, "formatted_address"))
             ELSE Return(ToolResult(
                    Stringify(Obj([formatted_address |-> Get(first, "formatted_address"),
                                   place_id |-> Get(first, "place_id"),
                                   address_components |-> Get(first, "address_components")])),
                    FALSE))

-----------------------------------------------------------------------------
(* handleElevation, lines 886-920 *)

ElevationUrl == "https://maps.googleapis.com/maps/api/elevation/json"

\* locations.map(loc => `${loc.latitude},${loc.longitude}`).join("|")
RECURSIVE LocationString(_)
LocationString(locs) ==
    IF locs = <<>> THEN ""
    ELSE TemplateStr(Get(locs[1], "latitude")) \o "," \o TemplateStr(Get(locs[1], "longitude"))
         \o (IF Len(locs) = 1 THEN "" ELSE "|" \o LocationString(Tail(locs)))

handleElevationRequest(locations, key) ==
    IF ~ IsArr(locations) THEN Throw(ReadError(locations, "map"))
    ELSE IF \E i \in 1..Len(locations.arr) : IsNullish(locations.arr[i])
    THEN Throw(TypeErrorReading("null", "latitude"))
    ELSE Return(HttpRequest("GET", ElevationUrl,
            <<<<"locations", LocationString(locations.arr)>>, <<"key", TemplateStr(key)>>>>,
            NoHeaders, Undefined))

\* handleElevation with the failure text built from data.status alone
handleElevationResponseStatusOnly(data) ==
    IF IsNullish(data) THEN Throw(ReadError(data, "status"))
    ELSE IF Get(data, "status") # Str("OK")
    THEN Return(ToolResult(
            Str("Elevation request failed: " \o TemplateStr(Get(data, "status"))), TRUE))
    ELSE LET results == Get(data, "results") IN
         IF ~ IsArr(results) THEN Throw(ReadError(results, "map"))
         ELSE Return(ToolResult(
                Stringify(Obj([results |-> Arr([i \in 1..Len(results.arr) |->
                    Obj([elevation |-> Get(results.arr[i], "elevation"),
                         location |-> Get(results.arr[i], "location"),
                         resolution |-> Get(results.arr[i], "resolution")])])])),
                FALSE))

\* lines 895-919, data the parsed body
handleElevationResponse(data) ==
    IF IsNullish(data) THEN Throw(ReadError(data, "status"))
    ELSE IF Get(data, "status") # Str("OK")
    THEN Return(ToolResult(
            Str("Elevation request failed: "
                \o TemplateStr(OrElse(Get(data, "error_message"), Get(data, "status")))),
            TRUE))
    ELSE LET results == Get(data, "results") IN
         IF ~ IsArr(results) THEN Throw(ReadError(results, "map"))
         ELSE IF \E i \in 1..Len(results.arr) : IsNullish(results.arr[i])
         THEN Throw(TypeErrorReading("null", "elevation"))
         ELSE Return(ToolResult(
                Stringify(Obj([results |-> Arr([i \in 1..Len(results.arr) |->
                    Obj([elevation |-> Get(results.arr[i], "elevation"),
                         location |-> Get(results.arr[i], "location"),
                         resolution |-> Get(results.arr[i], "resolution")])])])),
                FALSE))

-----------------------------------------------------------------------------
(* handlePlaceSearch, lines 504-573 *)

PlaceSearchUrl == "https://places.googleapis.com/v1/places:searchText"
PlaceSearchFieldMask ==
    "places.displayName,places.formattedAddress,places.location,places.id,places.rating,places.types"

\* lines 511-527
PlaceSearchBody(query, location, radius) ==
    IF Truthy(location) /\ Truthy(radius)
    THEN Obj([textQuery |-> query,
              locationBias |-> Obj([circle |-> Obj([
                  center |-> Obj([latitude |-> Get(location, "latitude"),
                                  longitude |-> Get(location, "longitude")]),
                  radius |-> radius])])])
    ELSE Obj([textQuery |-> query])

handlePlaceSearchRequest(query, location, radius, key) ==
    Return(HttpRequest("POST", PlaceSearchUrl, NoQuery,
        [ContentType |-> "application/json", XGoogApiKey |-> TemplateStr(key),
         XGoogFieldMask |-> PlaceSearchFieldMask],
        Stringify(PlaceSearchBody(query, location, radius))))

\* lines 558-568
PlaceSearchPlace(place) ==
    Obj([name |-> OptGet(Get(place, "displayName"), "text"),
         formatted_address |-> Get(place, "formattedAddress"),
         location |-> Obj([lat |-> OptGet(Get(place, "location"), "latitude"),
                           lng |-> OptGet(Get(place, "location"), "longitude")]),
         place_id |-> Get(place, "id"),
         rating |-> Get(place, "rating"),
         types |-> Get(place, "types")])

\* lines 544-572
handlePlaceSearchResponse(data) ==
    IF IsNullish(data) THEN Throw(ReadError(data, "places"))
    ELSE LET places == Get(data, "places") IN
         IF ~ Truthy(places)
         THEN Return(ToolResult(
                Str("Place search failed: "
                    \o TemplateStr(OrElse(OptGet(Get(data, "error"), "message"),
                                          Str("Unknown error")))),
                TRUE))
         ELSE IF ~ IsArr(places) THEN Throw("data.places.map is not a function")
         ELSE IF \E i \in 1..Len(places.arr) : IsNullish(places.arr[i])
         THEN Throw(TypeErrorReading("null", "displayName"))
         ELSE Return(ToolResult(
                Stringify(Obj([places |-> Arr([i \in 1..Len(places.arr) |->
                                                PlaceSearchPlace(places.arr[i])])])),
                FALSE))

-----------------------------------------------------------------------------
(* handlePlaceDetails, lines 575-740 *)

PlaceDetailsFieldMask ==
    "name,id,displayName,types,primaryType,primaryTypeDisplayName,formattedAddress,"
    \o "shortFormattedAddress,addressComponents,nationalPhoneNumber,internationalPhoneNumber,"
    \o "location,viewport,rating,userRatingCount,googleMapsUri,websiteUri,regularOpeningHours,"
    \o "currentOpeningHours,photos,businessStatus,priceLevel,reviews,paymentOptions,"
    \o "accessibilityOptions,reservable,dineIn,takeout,delivery,servesBreakfast,servesLunch,"
    \o "servesDinner,servesBrunch,editorialSummary,plusCode,iconMaskBaseUri,iconBackgroundColor"

handlePlaceDetailsRequest(place_id, key) ==
    Return(HttpRequest("GET", "https://places.googleapis.com/v1/places/" \o TemplateStr(place_id),
        NoQuery,
        [XGoogApiKey |-> TemplateStr(key), XGoogFieldMask |-> PlaceDetailsFieldMask],
        Undefined))

\* index of the first occurrence of the string pat in the string s, 0 if none
IndexOfStr(s, pat) ==
    LET hits == {i \in 1..(Len(s) - Len(pat) + 1) : SubSeq(s, i, i + Len(pat) - 1) = pat} IN
    IF hits = {} THEN 0 ELSE CHOOSE i \in hits : \A j \in hits : i <= j

\* s.replace(pat, '') for a string pattern: the first occurrence removed
RemoveFirstStr(s, pat) ==
    LET i == IndexOfStr(s, pat) IN
    IF i = 0 THEN s ELSE SubSeq(s, 1, i - 1) \o SubSeq(s, i + Len(pat), Len(s))

\* s.replace(/\/photos\/.*/, ''): everything from the first "/photos/" on removed
RemoveFromPhotos(s) ==
    LET i == IndexOfStr(s, "/photos/") IN
    IF i = 0 THEN s ELSE SubSeq(s, 1, i - 1)

\* line 693
PhotoReference(name) == Str(RemoveFromPhotos(RemoveFirstStr(name.str, "places/")))

\* String(v).padStart(2, '0')
PadStart2(v) ==
    LET t == TemplateStr(v) IN
    IF Len(t) >= 2 THEN t ELSE IF Len(t) = 1 THEN "0" \o t ELSE "00"

\* lines 668-675
PlaceDetailsPeriod(period) ==
    LET open == Get(period, "open")
        close == Get(period, "close")
    IN  Obj([open |-> Obj([day |-> OptGet(open, "day"),
                           time |-> Str(PadStart2(OptGet(open, "hour"))
                                        \o PadStart2(OptGet(open, "minute")))]),
             close |-> IF Truthy(close)
                       THEN Obj([day |-> Get(close, "day"),
                                 time |-> Str(PadStart2(Get(close, "hour"))
                                              \o PadStart2(Get(close, "minute")))])
                       ELSE Null])

\* lines 683-690
PlaceDetailsReview(review) ==
    LET author == Get(review, "authorAttribution") IN
    Obj([author_name |-> OrElse(OptGet(author, "displayName"), Str("")),
         author_url |-> OrElse(OptGet(author, "uri"), Str("")),
         profile_photo_url |-> OrElse(OptGet(author, "photoUri"), Str("")),
         rating |-> OrElse(Get(review, "rating"), Num(0)),
         relative_time_description |-> OrElse(Get(review, "relativePublishTimeDescription"), Str("")),
         text |-> OrElse(OptGet(Get(review, "text"), "text"), Str("")),
         time |-> OrElse(Get(review, "publishTime"), Str("")),
         google_maps_uri |-> OrElse(Get(review, "googleMapsUri"), Str(""))])

\* `<a href="${attr.uri}">${attr.displayName}</a>`
HtmlAttribution(attr) ==
    Str("<a href=\"" \o TemplateStr(Get(attr, "uri")) \o "\">"
        \o TemplateStr(Get(attr, "displayName")) \o "</a>")

\* lines 693-697
PlaceDetailsPhoto(photo) ==
    LET attrs == Get(photo, "authorAttributions") IN
    Obj([photo_reference |-> PhotoReference(Get(photo, "name")),
         height |-> Get(photo, "heightPx"),
         width |-> Get(photo, "widthPx"),
         html_attributions |->
            IF IsArr(attrs)
            THEN Arr([i \in 1..Len(attrs.arr) |-> HtmlAttribution(attrs.arr[i])])
            ELSE Arr(<<>>)])

\* x?.map(f) || [] for x an array or absent
MapOrEmpty(x, F(_)) ==
    IF IsArr(x) THEN Arr([i \in 1..Len(x.arr) |-> F(x.arr[i])]) ELSE Arr(<<>>)

\* the TypeError building formattedData raises on placeData, "" if none:
\* viewport without high / low, a photo without a name, a null list element
PlaceDetailsTypeError(placeData) ==
    LET viewport == Get(placeData, "viewport")
        hours == Get(placeData, "regularOpeningHours")
        periods == OptGet(hours, "periods")
        reviews == Get(placeData, "reviews")
        photos == Get(placeData, "photos")
    IN  IF IsNullish(placeData) THEN ReadError(placeData, "displayName")
        ELSE IF Truthy(viewport) /\ IsNullish(Get(viewport, "high"))
        THEN ReadError(Get(viewport, "high"), "latitude")
        ELSE IF Truthy(viewport) /\ IsNullish(Get(viewport, "low"))
        THEN ReadError(Get(viewport, "low"), "latitude")
        ELSE IF IsArr(periods) /\ \E i \in 1..Len(periods.arr) : IsNullish(periods.arr[i])
        THEN TypeErrorReading("null", "open")
        ELSE IF IsArr(reviews) /\ \E i \in 1..Len(reviews.arr) : IsNullish(reviews.arr[i])
        THEN TypeErrorReading("null", "authorAttribution")
        ELSE IF IsArr(photos) /\ \E i \in 1..Len(photos.arr) : IsNullish(photos.arr[i])
        THEN TypeErrorReading("null", "name")
        ELSE IF IsArr(photos) /\ \E i \in 1..Len(photos.arr) :
                    IsNullish(Get(photos.arr[i], "name"))
        THEN TypeErrorReading("undefined", "replace")
        ELSE ""

\* lines 626-720
formattedData(placeData) ==
    LET location == Get(placeData, "location")
        viewport == Get(placeData, "viewport")
        plusCode == Get(placeData, "plusCode")
        priceLevel == Get(placeData, "priceLevel")
        hours == Get(placeData, "regularOpeningHours")
        current == Get(placeData, "currentOpeningHours")
        payment == Get(placeData, "paymentOptions")
        access == Get(placeData, "accessibilityOptions")
        StrOr(k) == OrElse(Get(placeData, k), Str(""))
        FlagOr(o, k) == OrElse(Get(o, k), Bool(FALSE))
    IN  Obj([
        name |-> OrElse(OptGet(Get(placeData, "displayName"), "text"), Str("")),
        place_id |-> Get(placeData, "id"),
        formatted_address |-> StrOr("formattedAddress"),
        formatted_phone_number |-> StrOr("nationalPhoneNumber"),
        international_phone_number |-> StrOr("internationalPhoneNumber"),
        website |-> StrOr("websiteUri"),
        rating |-> OrElse(Get(placeData, "rating"), Num(0)),
        user_ratings_total |-> OrElse(Get(placeData, "userRatingCount"), Num(0)),
        url |-> StrOr("googleMapsUri"),
        address_components |-> OrElse(Get(placeData, "addressComponents"), Arr(<<>>)),
        geometry |-> Obj([
            location |-> IF Truthy(location)
                         THEN Obj([lat |-> Get(location, "latitude"),
                                   lng |-> Get(location, "longitude")])
                         ELSE Null,
            viewport |-> IF Truthy(viewport)
                         THEN Obj([northeast |-> Obj([
                                      lat |-> Get(Get(viewport, "high"), "latitude"),
                                      lng |-> Get(Get(viewport, "high"), "longitude")]),
                                   southwest |-> Obj([
                                      lat |-> Get(Get(viewport, "low"), "latitude"),
                                      lng |-> Get(Get(viewport, "low"), "longitude")])])
                         ELSE Null]),
        types |-> OrElse(Get(placeData, "types"), Arr(<<>>)),
        primary_type |-> StrOr("primaryType"),
        editorial_summary |-> OrElse(OptGet(Get(placeData, "editorialSummary"), "text"), Str("")),
        icon |-> StrOr("iconMaskBaseUri"),
        icon_background_color |-> StrOr("iconBackgroundColor"),
        plus_code |-> IF Truthy(plusCode)
                      THEN Obj([global_code |-> Get(plusCode, "globalCode"),
                                compound_code |-> Get(plusCode, "compoundCode")])
                      ELSE Null,
        business_status |-> StrOr("businessStatus"),
        price_level |-> IF Truthy(priceLevel) THEN getPriceLevelValue(priceLevel) ELSE Num(0),
        opening_hours |-> IF Truthy(hours)
                          THEN Obj([open_now |-> Get(hours, "openNow"),
                                    weekday_text |-> Get(hours, "weekdayDescriptions"),
                                    periods |-> MapOrEmpty(Get(hours, "periods"), PlaceDetailsPeriod)])
                          ELSE Null,
        current_opening_hours |-> IF Truthy(current)
                                  THEN Obj([open_now |-> Get(current, "openNow"),
                                            weekday_text |-> Get(current, "weekdayDescriptions")])
                                  ELSE Null,
        reviews |-> MapOrEmpty(Get(placeData, "reviews"), PlaceDetailsReview),
        photos |-> MapOrEmpty(Get(placeData, "photos"), PlaceDetailsPhoto),
        dine_in |-> FlagOr(placeData, "dineIn"),
        takeout |-> FlagOr(placeData, "takeout"),
        delivery |-> FlagOr(placeData, "delivery"),
        reservable |-> FlagOr(placeData, "reservable"),
        serves_breakfast |-> FlagOr(placeData, "servesBreakfast"),
        serves_lunch |-> FlagOr(placeData, "servesLunch"),
        serves_dinner |-> FlagOr(placeData, "servesDinner"),
        serves_brunch |-> FlagOr(placeData, "servesBrunch"),
        payment_options |-> IF Truthy(payment)
                            THEN Obj([accepts_credit_cards |-> FlagOr(payment, "acceptsCreditCards"),
                                      accepts_debit_cards |-> FlagOr(payment, "acceptsDebitCards"),
                                      accepts_cash_only |-> FlagOr(payment, "acceptsCashOnly"),
                                      accepts_nfc |-> FlagOr(payment, "acceptsNfc")])
                            ELSE EmptyObj,
        accessibility_options |-> IF Truthy(access)
            THEN Obj([wheelchair_accessible_entrance |-> FlagOr(access, "wheelchairAccessibleEntrance"),
                      wheelchair_accessible_parking |-> FlagOr(access, "wheelchairAccessibleParking"),
                      wheelchair_accessible_restroom |-> FlagOr(access, "wheelchairAccessibleRestroom"),
                      wheelchair_accessible_seating |-> FlagOr(access, "wheelchairAccessibleSeating")])
            ELSE EmptyObj])

\* the try / catch of lines 592-739 around an outcome of its body
PlaceDetailsCaught(o) ==
    IF Rejected(o)
    THEN Return(ToolResult(Str("Place details request failed: " \o o.message), TRUE))
    ELSE o

\* lines 603-621: errorText.substring(0, 200) of the body text, or the
\* fallback when reading the body failed
PlaceDetailsHttpError(resp, readFailed) ==
    LET errorDetails ==
            IF readFailed THEN Str("Could not read error details")
            ELSE IF DOMAIN resp.body = {"str"}
                 THEN Str(SubSeq(resp.body.str, 1,
                                 IF Len(resp.body.str) < 200 THEN Len(resp.body.str) ELSE 200))
                 ELSE [prefix |-> 200, of |-> resp.body]
    IN  Return(ToolResult(
            [concat |-> <<Str("Place details request failed: HTTP " \o IntToStr(resp.status)
                              \o " - " \o resp.statusText \o "\nDetails: "),
                          errorDetails>>],
            TRUE))

\* lines 623-729, placeData the parsed body
handlePlaceDetailsResponse(placeData) ==
    IF PlaceDetailsTypeError(placeData) # ""
    THEN Throw(PlaceDetailsTypeError(placeData))
    ELSE Return(ToolResult(Stringify(formattedData(placeData)), FALSE))

-----------------------------------------------------------------------------
(* handleDistanceMatrix, lines 742-884 *)

DistanceMatrixUrl == "https://routes.googleapis.com/distanceMatrix/v2:computeRouteMatrix"
DistanceMatrixFieldMask == "originIndex,destinationIndex,status,distanceMeters,duration"

\* lines 763-783 and 785-805
WaypointInputs(list) ==
    Arr([i \in 1..Len(list.arr) |-> Obj([waypoint |-> Waypoint(list.arr[i])])])

\* a request body for the first origin and the first destination alone
DistanceMatrixBodyFirstPair(origins, destinations, mode) ==
    Obj(WithRoutingPreference(
            [origins |-> WaypointInputs(Arr(SubSeq(origins.arr, 1, 1))),
             destinations |-> WaypointInputs(Arr(SubSeq(destinations.arr, 1, 1))),
             travelMode |-> googleTravelMode(mode)],
            googleTravelMode(mode)))

\* lines 808-818
DistanceMatrixBody(origins, destinations, mode) ==
    Obj(WithRoutingPreference(
            [origins |-> WaypointInputs(origins),
             destinations |-> WaypointInputs(destinations),
             travelMode |-> googleTravelMode(mode)],
            googleTravelMode(mode)))

handleDistanceMatrixRequest(origins, destinations, mode, key) ==
    IF ~ IsArr(origins) THEN Throw(ReadError(origins, "map"))
    ELSE IF ~ IsArr(destinations) THEN Throw(ReadError(destinations, "map"))
    ELSE Return(HttpRequest("POST", DistanceMatrixUrl, NoQuery,
            [ContentType |-> "application/json", XGoogApiKey |-> TemplateStr(key),
             XGoogFieldMask |-> DistanceMatrixFieldMask],
            Stringify(DistanceMatrixBody(origins, destinations, mode))))

\* item.duration.replace('s', '')
DurationDigits(duration) == Chars(ReplaceFirst(duration.chars, "s"))

\* lines 860-870: the element stored for one upstream item
MatrixElement(item) ==
    LET duration == Get(item, "duration")
        distanceMeters == Get(item, "distanceMeters")
    IN  Obj([status |-> OrElse(Get(item, "status"), Str("OK")),
             duration |-> Obj([
                text |-> IF Truthy(duration) THEN DurationDigits(duration) ELSE Str("Unknown"),
                value |-> IF Truthy(distanceMeters)
                          THEN ParseInt(DurationDigits(duration).chars)
                          ELSE Num(0)]),
             distance |-> Obj([
                text |-> IF Truthy(distanceMeters) THEN KmText(distanceMeters.num)
                         ELSE Str("Unknown"),
                value |-> distanceMeters])])

\* the TypeError line 860-870 raises for one item against the matrix, "" if
\* none: the row resultMatrix[originIdx] does not exist, or duration is read
\* (line 864) where the item has none
MatrixItemTypeError(rows, item) ==
    LET originIdx == Get(item, "originIndex") IN
    IF IsNullish(item) THEN ReadError(item, "originIndex")
    ELSE IF ~ (IsNum(originIdx) /\ originIdx.num >= 0 /\ originIdx.num < Len(rows))
    THEN TypeErrorReading("undefined", "elements")
    ELSE IF Truthy(Get(item, "distanceMeters")) /\ IsNullish(Get(item, "duration"))
    THEN ReadError(Get(item, "duration"), "replace")
    ELSE ""

\* elements[destIdx] = element: an index past the end lengthens the array,
\* the skipped places being holes (null once serialized); an index that is
\* no array index sets a property JSON.stringify does not show
SetElement(elements, destIdx, element) ==
    IF ~ (IsNum(destIdx) /\ destIdx.num >= 0) THEN elements
    ELSE [j \in 1..(IF destIdx.num + 1 > Len(elements) THEN destIdx.num + 1 ELSE Len(elements)) |->
            IF j = destIdx.num + 1 THEN element
            ELSE IF j <= Len(elements) THEN elements[j]
            ELSE Null]

\* lines 856-871: data.forEach over the items, in order; the rows so far, or
\* the message of the TypeError that ended the loop
RECURSIVE MatrixFill(_, _)
MatrixFill(rows, items) ==
    IF items = <<>> THEN [rows |-> rows, error |-> ""]
    ELSE LET item == items[1]
             err == MatrixItemTypeError(rows, item)
             i == Get(item, "originIndex").num + 1
         IN  IF err # "" THEN [rows |-> rows, error |-> err]
             ELSE MatrixFill(
                    [rows EXCEPT ![i] = SetElement(rows[i], Get(item, "destinationIndex"),
                                                   MatrixElement(item))],
                    Tail(items))

\* lines 851-853
EmptyMatrix(n, m) == [i \in 1..n |-> [j \in 1..m |-> Null]]

\* lines 840-883, data the parsed body
handleDistanceMatrixResponse(origins, destinations, resp, data) ==
    IF IsNullish(data) THEN Throw(ReadError(data, "0"))
    ELSE IF resp.status # 200 \/ (Truthy(At(data, 0)) /\ Truthy(Get(At(data, 0), "error")))
    THEN Return(ToolResult(
            Str("Distance matrix request failed: "
                \o TemplateStr(OrElse(OrElse(OptGet(OptGet(At(data, 0), "error"), "message"),
                                             Str(resp.statusText)),
                                      Str("Unknown error")))),
            TRUE))
    ELSE IF ~ IsArr(data) THEN Throw("data.forEach is not a function")
    ELSE LET filled == MatrixFill(EmptyMatrix(Len(origins.arr), Len(destinations.arr)), data.arr) IN
         IF filled.error # "" THEN Throw(filled.error)
         ELSE Return(ToolResult(
                Stringify(Obj([origin_addresses |-> origins,
                               destination_addresses |-> destinations,
                               rows |-> Arr([i \in 1..Len(filled.rows) |->
                                              Obj([elements |-> Arr(filled.rows[i])])])])),
                FALSE))

-----------------------------------------------------------------------------
(* handleDirections, lines 922-1052 *)

DirectionsUrl == "https://routes.googleapis.com/directions/v2:computeRoutes"
DirectionsFieldMask ==
    "routes.description,routes.distanceMeters,routes.duration,routes.staticDuration,"
    \o "routes.legs.steps.distanceMeters,routes.legs.steps.staticDuration,"
    \o "routes.legs.steps.navigationInstruction,routes.legs.steps.travelAdvisory"

\* lines 976-993
DirectionsBody(origin, destination, mode) ==
    Obj(WithRoutingPreference(
            [origin |-> Waypoint(origin),
             destination |-> Waypoint(destination),
             travelMode |-> googleTravelMode(mode),
             computeAlternativeRoutes |-> Bool(FALSE),
             routeModifiers |-> Obj([avoidTolls |-> Bool(FALSE),
                                     avoidHighways |-> Bool(FALSE),
                                     avoidFerries |-> Bool(FALSE)]),
             languageCode |-> Str("en-US")],
            googleTravelMode(mode)))

handleDirectionsRequest(origin, destination, mode, key) ==
    Return(HttpRequest("POST", DirectionsUrl, NoQuery,
        [ContentType |-> "application/json", XGoogApiKey |-> TemplateStr(key),
         XGoogFieldMask |-> DirectionsFieldMask],
        Stringify(DirectionsBody(origin, destination, mode))))

\* lines 1027-1030 and 1037-1040
DistanceOf(x) ==
    LET distanceMeters == Get(x, "distanceMeters") IN
    Obj([text |-> IF Truthy(distanceMeters) THEN KmText(distanceMeters.num)
                  ELSE Str("Unknown distance"),
         value |-> distanceMeters])

\* lines 1036-1045
DirectionsStep(step, travelMode) ==
    LET staticDuration == Get(step, "staticDuration") IN
    Obj([instructions |->
            OrElse(OrElse(OptGet(Get(step, "navigationInstruction"), "instructions"),
                          OptGet(OptGet(Get(step, "travelAdvisory"), "text"), "text")),
                   Str("")),
         distance |-> DistanceOf(step),
         duration |-> Obj([
            text |-> IF Truthy(staticDuration) THEN DurationDigits(staticDuration)
                     ELSE Str("Unknown duration"),
            value |-> IF Truthy(staticDuration) THEN ParseInt(DurationDigits(staticDuration).chars)
                      ELSE Num(0)]),
         travel_mode |-> travelMode])

\* lines 1025-1047
DirectionsRoute(route, travelMode) ==
    LET duration == Get(route, "duration")
        staticDuration == Get(route, "staticDuration")
        legSteps == OptGet(At(Get(route, "legs"), 0), "steps")
    IN  Obj([summary |-> OrElse(Get(route, "description"), Str("Route")),
             distance |-> DistanceOf(route),
             duration |-> Obj([
                text |-> IF Truthy(duration) THEN DurationDigits(duration)
                         ELSE Str("Unknown duration"),
                value |-> IF Truthy(staticDuration)
                          THEN ParseInt(DurationDigits(staticDuration).chars)
                          ELSE Num(0)]),
             steps |-> IF IsArr(legSteps)
                       THEN Arr([i \in 1..Len(legSteps.arr) |->
                                    DirectionsStep(legSteps.arr[i], travelMode)])
                       ELSE Arr(<<>>)])

\* the TypeError reshaping the routes raises, "" if none: a null route or step
DirectionsTypeError(routes) ==
    IF ~ IsArr(routes) THEN ""
    ELSE IF \E i \in 1..Len(routes.arr) : IsNullish(routes.arr[i])
    THEN TypeErrorReading("null", "description")
    ELSE IF \E i \in 1..Len(routes.arr) :
              LET legSteps == OptGet(At(Get(routes.arr[i], "legs"), 0), "steps") IN
              IsArr(legSteps) /\ \E j \in 1..Len(legSteps.arr) : IsNullish(legSteps.arr[j])
    THEN TypeErrorReading("null", "navigationInstruction")
    ELSE ""

\* lines 1011-1051, data the parsed body
handleDirectionsResponse(mode, resp, data) ==
    IF IsNullish(data) THEN Throw(ReadError(data, "error"))
    ELSE IF resp.status # 200 \/ Truthy(Get(data, "error"))
    THEN Return(ToolResult(
            Str("Directions request failed: "
                \o TemplateStr(OrElse(OrElse(OptGet(Get(data, "error"), "message"),
                                             Str(resp.statusText)),
                                      Str("No routes found")))),
            TRUE))
    ELSE LET routes == Get(data, "routes") IN
         IF DirectionsTypeError(routes) # "" THEN Throw(DirectionsTypeError(routes))
         ELSE Return(ToolResult(
                Stringify(Obj([routes |->
                    IF IsArr(routes)
                    THEN Arr([i \in 1..Len(routes.arr) |->
                                DirectionsRoute(routes.arr[i], googleTravelMode(mode))])
                    ELSE Arr(<<>>)])),
                FALSE))

-----------------------------------------------------------------------------
(* Startup and the tool list *)

\* the process exits with this status
Exit(status) == [exit |-> status]
Exits(v) == DOMAIN v = {"exit"}

\* getApiKey exiting only when the variable is unset
getApiKeyUnsetOnly(env) == IF IsUndefined(env) THEN Exit(1) ELSE env

\* lines 257-264: the key of the environment, or process.exit(1)
getApiKey(env) == IF ~ Truthy(env) THEN Exit(1) ELSE env

\* the required properties of each inputSchema, lines 269-416
RequiredArguments(name) ==
    CASE name = "maps_geocode" -> {"address"}
      [] name = "maps_reverse_geocode" -> {"latitude", "longitude"}
      [] name = "maps_search_places" -> {"query"}
      [] name = "maps_place_details" -> {"place_id"}
      [] name = "maps_distance_matrix" -> {"origins", "destinations"}
      [] name = "maps_elevation" -> {"locations"}
      [] name = "maps_directions" -> {"origin", "destination"}

\* a Tool of lines 269-416: its name and the required part of its inputSchema
ToolDescriptor(name) ==
    [name |-> name, inputSchema |-> [type |-> "object", required |-> RequiredArguments(name)]]

\* the descriptors in the alphabetical order of their names
MAPS_TOOLS_Sorted ==
    <<ToolDescriptor("maps_directions"), ToolDescriptor("maps_distance_matrix"),
      ToolDescriptor("maps_elevation"), ToolDescriptor("maps_geocode"),
      ToolDescriptor("maps_place_details"), ToolDescriptor("maps_reverse_geocode"),
      ToolDescriptor("maps_search_places")>>

\* lines 418-426
MAPS_TOOLS ==
    <<ToolDescriptor("maps_geocode"), ToolDescriptor("maps_reverse_geocode"),
      ToolDescriptor("maps_search_places"), ToolDescriptor("maps_place_details"),
      ToolDescriptor("maps_distance_matrix"), ToolDescriptor("maps_elevation"),
      ToolDescriptor("maps_directions")>>

NotListed == [answered |-> FALSE]

\* lines 1068-1070: the result of the list-tools handler
ListToolsResult(list) == [answered |-> TRUE, tools |-> list]

-----------------------------------------------------------------------------
(* The call-tool handler, lines 1072-1145 *)

ToolNames ==
    {"maps_geocode", "maps_reverse_geocode", "maps_search_places", "maps_place_details",
     "maps_distance_matrix", "maps_elevation", "maps_directions"}

\* the handler without its catch: an exception leaves it as a rejection
CallToolUncaught(o) == o

\* the catch of lines 1136-1144 around an outcome of the switch
CallToolCaught(o) ==
    IF Rejected(o)
    THEN Return(ToolResult(Str("Error: " \o o.message), TRUE))
    ELSE o

\* the default branch without the name in its message
UnknownToolUnnamed(name) == Return(ToolResult(Str("Unknown tool"), TRUE))

\* the default branch, lines 1127-1134
UnknownTool(name) == Return(ToolResult(Str("Unknown tool: " \o name), TRUE))

\* the synchronous part of a case of the switch, up to the call of fetch:
\* the arguments are destructured and the handler builds its request
BeforeFetch(name, args, key) ==
    IF IsNullish(args) THEN Throw(DestructureError)
    ELSE CASE name = "maps_geocode" ->
                handleGeocodeRequest(Get(args, "address"), key)
           [] name = "maps_reverse_geocode" ->
                handleReverseGeocodeRequest(Get(args, "latitude"), Get(args, "longitude"), key)
           [] name = "maps_search_places" ->
                handlePlaceSearchRequest(Get(args, "query"), Get(args, "location"),
                                         Get(args, "radius"), key)
           [] name = "maps_place_details" ->
                handlePlaceDetailsRequest(Get(args, "place_id"), key)
           [] name = "maps_distance_matrix" ->
                handleDistanceMatrixRequest(Get(args, "origins"), Get(args, "destinations"),
                                            Get(args, "mode"), key)
           [] name = "maps_elevation" ->
                handleElevationRequest(Get(args, "locations"), key)
           [] name = "maps_directions" ->
                handleDirectionsRequest(Get(args, "origin"), Get(args, "destination"),
                                        Get(args, "mode"), key)

\* the rest of a handler once the body of the response has been parsed
AfterBody(name, args, resp, data) ==
    CASE name = "maps_geocode" -> handleGeocodeResponse(data)
      [] name = "maps_reverse_geocode" -> handleReverseGeocodeResponse(data)
      [] name = "maps_search_places" -> handlePlaceSearchResponse(data)
      [] name = "maps_place_details" -> handlePlaceDetailsResponse(data)
      [] name = "maps_distance_matrix" ->
            handleDistanceMatrixResponse(Get(args, "origins"), Get(args, "destinations"),
                                         resp, data)
      [] name = "maps_elevation" -> handleElevationResponse(data)
      [] name = "maps_directions" -> handleDirectionsResponse(Get(args, "mode"), resp, data)

\* what the awaited handler settles to inside the switch: handlePlaceDetails
\* has a catch of its own
HandlerSettles(name, o) ==
    IF name = "maps_place_details" THEN PlaceDetailsCaught(o) ELSE o

-----------------------------------------------------------------------------
(* Call-tool requests the transport can deliver *)

\* the characters of a string
CharsOf(str) == Chars([i \in 1..Len(str) |-> SubSeq(str, i, i)])

\* all sequences over S of length at most n
SeqsUpTo(S, n) == UNION {[1..k -> S] : k \in 0..n}

CoordSigns == {"", "-", "+"}
CoordIntParts == {"0", "5", "05", "45", "89", "90", "91", "100", "179", "180", "181", "007", "1000"}
CoordFractions == {"", ".0", ".5"}
CoordNumerals ==
    {sg \o ip \o fr : sg \in CoordSigns, ip \in CoordIntParts, fr \in CoordFractions}

\* waypoint strings: every numeral as a latitude and as a longitude, with and
\* without a blank after the comma, and strings that are no coordinate pair
WaypointStrings ==
    {n \o ",10" : n \in CoordNumerals}
    \cup {"10," \o n : n \in CoordNumerals}
    \cup {"10, " \o n : n \in {"0", "-5", "+45.5", "180", "181", "05"}}
    \cup {"10 ,20", "10,", ",20", "10", "10,20,30", "10;20", "", ".5,.5", "5.,5", "--5,5",
          "1600 Amphitheatre Parkway", "Paris"}

ModeArguments ==
    {Undefined, Str("driving"), Str("walking"), Str("bicycling"), Str("transit"),
     Str("two_wheeler"), Str("flying"), Str(""), Str("constructor"), Str("toString")}

AddressA == CharsOf("Paris")
AddressB == CharsOf("Lyon")
CoordC == CharsOf("48.5,2.5")

\* origins / destinations lists of every length up to MaxWaypoints
WaypointLists ==
    {Arr([i \in 1..n |-> IF i = 2 THEN CoordC ELSE AddressA]) : n \in 1..MaxWaypoints}

GeocodeArguments ==
    {Undefined, EmptyObj, Obj([address |-> Str("1600 Amphitheatre Parkway")])}

ReverseGeocodeArguments ==
    {Undefined, Obj([latitude |-> Num(37), longitude |-> Num(-122)])}

SearchLocation == Obj([latitude |-> Num(48), longitude |-> Num(2)])

PlaceSearchArguments ==
    {Undefined,
     Obj([query |-> Str("pizza")]),
     Obj([query |-> Str("pizza"), location |-> SearchLocation]),
     Obj([query |-> Str("pizza"), radius |-> Num(500)]),
     Obj([query |-> Str("pizza"), location |-> SearchLocation, radius |-> Num(500)]),
     Obj([query |-> Str("pizza"), location |-> SearchLocation, radius |-> Num(0)])}

PlaceDetailsArguments == {Undefined, EmptyObj, Obj([place_id |-> Str("P1")])}

ElevationArguments ==
    {Undefined, EmptyObj}
    \cup {Obj([locations |-> Arr([i \in 1..n |-> Obj([latitude |-> Num(40 + i),
                                                       longitude |-> Num(7)])])]) :
            n \in 0..MaxWaypoints}

DistanceMatrixArguments ==
    {Undefined, EmptyObj, Obj([origins |-> Arr(<<AddressA>>)])}
    \cup {Obj([origins |-> o, destinations |-> d]) : o \in WaypointLists, d \in WaypointLists}
    \cup {Obj([origins |-> Arr(<<AddressA>>), destinations |-> Arr(<<AddressB>>), mode |-> m]) :
            m \in ModeArguments \ {Undefined}}
    \cup {Obj([origins |-> Arr(<<CharsOf(w)>>), destinations |-> Arr(<<AddressB>>)]) :
            w \in {"10,20", "+10,20", "05,20", "91,20"}}
    \cup {Obj([origins |-> Arr(<<AddressA>>), destinations |-> Arr(<<CharsOf(w)>>)]) :
            w \in {"10,20", "+10,20", "05,20", "91,20"}}

DirectionsArguments ==
    {Undefined, EmptyObj}
    \cup {Obj([origin |-> AddressA, destination |-> AddressB, mode |-> m]) :
            m \in ModeArguments \ {Undefined}}
    \cup {Obj([origin |-> CharsOf(w), destination |-> AddressB]) : w \in WaypointStrings}
    \cup {Obj([origin |-> AddressA, destination |-> CharsOf(w)]) : w \in WaypointStrings}

UnknownToolNames == {"maps_nonexistent", "maps_geocoding", "constructor", ""}

ArgumentsFor(name) ==
    CASE name = "maps_geocode" -> GeocodeArguments
      [] name = "maps_reverse_geocode" -> ReverseGeocodeArguments
      [] name = "maps_search_places" -> PlaceSearchArguments
      [] name = "maps_place_details" -> PlaceDetailsArguments
      [] name = "maps_distance_matrix" -> DistanceMatrixArguments
      [] name = "maps_elevation" -> ElevationArguments
      [] name = "maps_directions" -> DirectionsArguments
      [] OTHER -> {Undefined, Obj([address |-> Str("1600 Amphitheatre Parkway")])}

CallToolRequests ==
    {[name |-> n, arguments |-> a] : n \in ToolNames \cup UnknownToolNames, a \in {Undefined}}
    \cup UNION {{[name |-> n, arguments |-> a] : a \in ArgumentsFor(n)} :
                    n \in ToolNames \cup UnknownToolNames}

-----------------------------------------------------------------------------
(* Responses the upstream services can give *)

\* the legacy services answer HTTP 200 and report in the status field
LegacyResult(k) ==
    Obj([place_id |-> Str("P" \o NatToStr(k)),
         formatted_address |-> Str("Address " \o NatToStr(k)),
         geometry |-> Obj([location |-> Obj([lat |-> Num(37 + k), lng |-> Num(-122)])]),
         address_components |-> Arr(<<Obj([long_name |-> Str("City " \o NatToStr(k)),
                                           short_name |-> Str("C" \o NatToStr(k)),
                                           types |-> Arr(<<Str("locality")>>)])>>)])

LegacyResults == {LegacyResult(1), LegacyResult(2), Obj([place_id |-> Str("P3")])}

ErrorBodies ==
    {JsonBody(Obj([error |-> Obj([message |-> Str("API key not valid")])])),
     JsonBody(Obj([error |-> EmptyObj])),
     HtmlBody}

GeocodeResponses ==
    {HttpResponse(200, "OK", JsonBody(Obj([status |-> Str("OK"), results |-> Arr(rs)]))) :
        rs \in SeqsUpTo(LegacyResults, MaxItems)}
    \cup {HttpResponse(200, "OK", JsonBody(b)) : b \in
            {Obj([status |-> Str("ZERO_RESULTS"), results |-> Arr(<<>>)]),
             Obj([status |-> Str("REQUEST_DENIED"), results |-> Arr(<<>>),
                  error_message |-> Str("The provided API key is invalid.")]),
             Obj([status |-> Str("OVER_QUERY_LIMIT"), results |-> Arr(<<>>),
                  error_message |-> Str("")]),
             EmptyObj,
             Null}}
    \cup {HttpResponse(503, "Service Unavailable", HtmlBody)}

ElevationResult(k) ==
    Obj([elevation |-> Num(100 * k),
         location |-> Obj([lat |-> Num(40 + k), lng |-> Num(7)]),
         resolution |-> Num(5)])

ElevationResponses ==
    {HttpResponse(200, "OK", JsonBody(Obj([status |-> Str("OK"), results |-> Arr(rs)]))) :
        rs \in SeqsUpTo({ElevationResult(1), ElevationResult(2)}, MaxItems)}
    \cup {HttpResponse(200, "OK", JsonBody(b)) : b \in
            {Obj([status |-> Str("INVALID_REQUEST"), results |-> Arr(<<>>)]),
             Obj([status |-> Str("REQUEST_DENIED"), results |-> Arr(<<>>),
                  error_message |-> Str("The provided API key is invalid.")]),
             Obj([status |-> Str("OK")]),
             Null}}
    \cup {HttpResponse(503, "Service Unavailable", HtmlBody)}

SearchPlaces ==
    {Obj([id |-> Str("P1"), displayName |-> Obj([text |-> Str("Pizza One")]),
          formattedAddress |-> Str("1 Main St"),
          location |-> Obj([latitude |-> Num(48), longitude |-> Num(2)]),
          rating |-> Num(4), types |-> Arr(<<Str("restaurant")>>)]),
     Obj([id |-> Str("P2"), displayName |-> Obj([text |-> Str("Pizza Two")]),
          formattedAddress |-> Str("2 Main St"),
          location |-> Obj([latitude |-> Num(49), longitude |-> Num(3)]),
          types |-> Arr(<<Str("restaurant")>>)]),
     EmptyObj}

PlaceSearchResponses ==
    {HttpResponse(200, "OK", JsonBody(Obj([places |-> Arr(ps)]))) :
        ps \in SeqsUpTo(SearchPlaces, MaxItems)}
    \cup {HttpResponse(200, "OK", JsonBody(EmptyObj)),
          HttpResponse(200, "OK", JsonBody(Null))}
    \cup {HttpResponse(403, "Forbidden", b) : b \in ErrorBodies}

PriceLevels ==
    {Undefined, Str(""), Str("PRICE_LEVEL_FREE"), Str("PRICE_LEVEL_INEXPENSIVE"),
     Str("PRICE_LEVEL_MODERATE"), Str("PRICE_LEVEL_EXPENSIVE"),
     Str("PRICE_LEVEL_VERY_EXPENSIVE"), Str("PRICE_LEVEL_UNSPECIFIED"),
     Str("constructor"), Str("toString")}

Photo(ref) ==
    Obj([name |-> Str("places/P1/photos/" \o ref), heightPx |-> Num(300), widthPx |-> Num(400),
         authorAttributions |-> Arr(<<Obj([displayName |-> Str("Ann"),
                                           uri |-> Str("//maps.example/ann")])>>)])

PhotoLists ==
    {Undefined, Arr(<<Photo("R1")>>), Arr(<<Photo("R1"), Photo("R2")>>),
     Arr(<<Obj([heightPx |-> Num(300)])>>)}

OpeningPeriods ==
    {Obj([open |-> Obj([day |-> Num(1), hour |-> Num(9), minute |-> Num(0)]),
          close |-> Obj([day |-> Num(1), hour |-> Num(17), minute |-> Num(30)])]),
     Obj([open |-> Obj([day |-> Num(0), hour |-> Num(0), minute |-> Num(0)])]),
     Obj([open |-> Obj([day |-> Num(2), hour |-> Num(9)]),
          close |-> Obj([day |-> Num(2), hour |-> Num(17)])]),
     Obj([close |-> Obj([day |-> Num(3), hour |-> Num(22), minute |-> Num(5)])])}

OpeningHours ==
    {Undefined, Obj([openNow |-> Bool(TRUE)])}
    \cup {Obj([openNow |-> Bool(TRUE), weekdayDescriptions |-> Arr(<<Str("Monday: 9-17")>>),
               periods |-> Arr(<<p>>)]) : p \in OpeningPeriods}

Viewports ==
    {Undefined,
     Obj([low |-> Obj([latitude |-> Num(47), longitude |-> Num(1)]),
          high |-> Obj([latitude |-> Num(49), longitude |-> Num(3)])]),
     Obj([low |-> Obj([latitude |-> Num(47), longitude |-> Num(1)])])}

\* a Place of the Places API (New): fields outside the mask or without a
\* value are absent
WithOptional(rec, keys) == Obj([k \in {j \in keys : ~ IsUndefined(rec[j])} |-> rec[k]])

PlaceBodies ==
    {WithOptional([id |-> id, displayName |-> Obj([text |-> Str("Pizza One")]),
                   formattedAddress |-> Str("1 Main St"),
                   location |-> Obj([latitude |-> Num(48), longitude |-> Num(2)]),
                   priceLevel |-> pl, photos |-> ph, regularOpeningHours |-> oh,
                   viewport |-> vp, dineIn |-> Bool(TRUE)],
                  {"id", "displayName", "formattedAddress", "location", "priceLevel", "photos",
                   "regularOpeningHours", "viewport", "dineIn"}) :
        id \in {Undefined, Str("P1")}, pl \in PriceLevels, ph \in PhotoLists,
        oh \in OpeningHours, vp \in Viewports}
    \cup {EmptyObj, Null}

PlaceDetailsResponses ==
    {HttpResponse(200, "OK", JsonBody(b)) : b \in PlaceBodies}
    \cup {HttpResponse(200, "OK", HtmlBody)}
    \cup {HttpResponse(404, "Not Found", b) : b \in ErrorBodies}

\* the originIndex / destinationIndex values upstream elements carry: in
\* range for every list, and out of range for a list of one waypoint
MatrixIndexes == {0, 1}

\* one element of the route matrix; absent fields are left out
MatrixItems ==
    {WithOptional([originIndex |-> Num(i), destinationIndex |-> Num(j),
                   duration |-> du, distanceMeters |-> dm],
                  {"originIndex", "destinationIndex", "duration", "distanceMeters"}) :
        i \in MatrixIndexes, j \in MatrixIndexes,
        du \in {Undefined, CharsOf("75s")}, dm \in {Undefined, Num(1500)}}

DistanceMatrixResponses ==
    {HttpResponse(200, "OK", JsonBody(Arr(items))) : items \in SeqsUpTo(MatrixItems, MaxItems)}
    \cup {HttpResponse(200, "OK", JsonBody(EmptyObj)),
          HttpResponse(200, "OK", JsonBody(Null)),
          HttpResponse(200, "OK", HtmlBody),
          HttpResponse(400, "Bad Request",
              JsonBody(Arr(<<Obj([error |-> Obj([message |-> Str("Invalid waypoint")])])>>))),
          HttpResponse(403, "Forbidden",
              JsonBody(Obj([error |-> Obj([message |-> Str("API key not valid")])]))),
          HttpResponse(503, "Service Unavailable", HtmlBody)}

RouteSteps ==
    {WithOptional([distanceMeters |-> dm, staticDuration |-> sd,
                   navigationInstruction |-> Obj([instructions |-> Str("Turn left")])],
                  {"distanceMeters", "staticDuration", "navigationInstruction"}) :
        dm \in {Undefined, Num(300)}, sd \in {Undefined, CharsOf("40s")}}

Routes ==
    {WithOptional([description |-> Str("A6"), distanceMeters |-> dm, duration |-> du,
                   staticDuration |-> sd, legs |-> Undefined],
                  {"description", "distanceMeters", "duration", "staticDuration", "legs"}) :
        dm \in {Undefined, Num(1500)}, du \in {Undefined, CharsOf("120s")},
        sd \in {Undefined, CharsOf("100s"), CharsOf("120s")}}
    \cup {Obj([distanceMeters |-> Num(1500), duration |-> CharsOf("120s"),
               staticDuration |-> CharsOf("120s"),
               legs |-> Arr(<<Obj([steps |-> Arr(<<st>>)])>>)]) : st \in RouteSteps}

\* computeAlternativeRoutes is false (line 980): the answer has one route or none
DirectionsResponses ==
    {HttpResponse(200, "OK", JsonBody(Obj([routes |-> Arr(rs)]))) :
        rs \in {<<>>} \cup {<<r>> : r \in Routes}}
    \cup {HttpResponse(200, "OK", JsonBody(EmptyObj)),
          HttpResponse(200, "OK", JsonBody(Null)),
          HttpResponse(400, "Bad Request",
              JsonBody(Obj([error |-> Obj([message |-> Str("Invalid waypoint")])]))),
          HttpResponse(403, "Forbidden", JsonBody(Obj([error |-> EmptyObj]))),
          HttpResponse(503, "Service Unavailable", HtmlBody)}

ResponsesFor(name) ==
    CASE name = "maps_geocode" -> GeocodeResponses
      [] name = "maps_reverse_geocode" -> GeocodeResponses
      [] name = "maps_search_places" -> PlaceSearchResponses
      [] name = "maps_place_details" -> PlaceDetailsResponses
      [] name = "maps_distance_matrix" -> DistanceMatrixResponses
      [] name = "maps_elevation" -> ElevationResponses
      [] name = "maps_directions" -> DirectionsResponses

-----------------------------------------------------------------------------
(* The state machine *)

Calls == {"c1"}

\* one set of handler locals for the whole module, whichever call runs
InvocationShared(c) == "c1"

\* the handler invocation serving call c: response, data and every other
\* local of a handler belong to the invocation
Invocation(c) == c

EnvironmentKeys == {Undefined, Str(""), Str("test-key")}

\* the state after module load, for the calls the transport can have open
InitOver(calls) ==
    /\ serverState = "starting"
    /\ exitCode = Undefined
    /\ tools = MAPS_TOOLS
    /\ listed = NotListed
    /\ envKey \in EnvironmentKeys
    /\ apiKey = Undefined
    /\ pc = [c \in calls |-> "idle"]
    /\ request = [c \in calls |-> [name |-> "", arguments |-> Undefined]]
    /\ outbound = [c \in calls |-> NoRequest]
    /\ fetches = [c \in calls |-> 0]
    /\ response = [c \in calls |-> NoResponse]
    /\ raised = [c \in calls |-> ""]
    /\ overlapped = [c \in calls |-> FALSE]
    /\ outcome = [c \in calls |-> Pending]

Init == InitOver(Calls)

\* getApiKey, lines 257-266, then runServer, lines 1147-1156: without a key
\* the process exits, with one the server connects and serves requests, or
\* fails to connect and exits
Startup ==
    /\ serverState = "starting"
    /\ IF Exits(getApiKey(envKey))
       THEN /\ apiKey' = apiKey
            /\ serverState' = "exited"
            /\ exitCode' = Num(getApiKey(envKey).exit)
       ELSE /\ apiKey' = getApiKey(envKey)
            /\ \E connected \in BOOLEAN :
                  IF connected
                  THEN serverState' = "running" /\ exitCode' = exitCode
                  ELSE serverState' = "exited" /\ exitCode' = Num(1)
    /\ UNCHANGED <<tools, listed, envKey, pc, request, outbound, fetches, response, raised,
                   overlapped, outcome>>

\* a list-tools request is answered, lines 1068-1070
ListTools ==
    /\ serverState = "running"
    /\ listed = NotListed
    /\ listed' = ListToolsResult(tools)
    /\ UNCHANGED <<serverState, exitCode, tools, apiKey, envKey, pc, request, outbound,
                   fetches, response, raised, overlapped, outcome>>

\* the transport sends the list and the request is over
ListReply ==
    /\ listed # NotListed
    /\ listed' = NotListed
    /\ UNCHANGED <<serverState, exitCode, tools, apiKey, envKey, pc, request, outbound,
                   fetches, response, raised, overlapped, outcome>>

\* the handler settles for call c: o is the outcome of the switch body
Settle(c, o) ==
    /\ raised' = [raised EXCEPT ![c] = IF Rejected(o) THEN o.message ELSE ""]
    /\ outcome' = [outcome EXCEPT ![c] = CallToolCaught(HandlerSettles(request[c].name, o))]
    /\ pc' = [pc EXCEPT ![c] = "done"]

\* the positions at which a handler is suspended at an await
Suspended == {"fetch", "body"}

\* call c suspends at its fetch: it overlaps every call suspended now
Overlap(c) ==
    [d \in DOMAIN pc |->
        IF d = c THEN \E e \in DOMAIN pc \ {c} : pc[e] \in Suspended
        ELSE overlapped[d] \/ pc[d] \in Suspended]

\* a call-tool request out of requests arrives: lines 1073-1135 up to the
\* await of fetch
CallToolFrom(c, requests) ==
    /\ serverState = "running"
    /\ pc[c] = "idle"
    /\ \E req \in requests :
        /\ request' = [request EXCEPT ![c] = req]
        /\ IF req.name \notin ToolNames
           THEN /\ raised' = [raised EXCEPT ![c] = ""]
                /\ outcome' = [outcome EXCEPT ![c] = CallToolCaught(UnknownTool(req.name))]
                /\ pc' = [pc EXCEPT ![c] = "done"]
                /\ UNCHANGED <<outbound, fetches, overlapped>>
           ELSE LET before == BeforeFetch(req.name, req.arguments, apiKey) IN
                IF Rejected(before)
                THEN /\ raised' = [raised EXCEPT ![c] = before.message]
                     /\ outcome' = [outcome EXCEPT ![c] = CallToolCaught(before)]
                     /\ pc' = [pc EXCEPT ![c] = "done"]
                     /\ UNCHANGED <<outbound, fetches, overlapped>>
                ELSE /\ outbound' = [outbound EXCEPT ![c] = before.result]
                     /\ fetches' = [fetches EXCEPT ![c] = @ + 1]
                     /\ pc' = [pc EXCEPT ![c] = "fetch"]
                     /\ overlapped' = Overlap(c)
                     /\ UNCHANGED <<raised, outcome>>
    /\ UNCHANGED <<serverState, exitCode, tools, listed, apiKey, envKey, response>>

CallTool(c) == CallToolFrom(c, CallToolRequests)

\* fetch resolves with a response of the upstream service out of responses
FetchResolvesFrom(c, responses) ==
    /\ pc[c] = "fetch"
    /\ \E resp \in responses :
        response' = [response EXCEPT ![Invocation(c)] = resp]
    /\ pc' = [pc EXCEPT ![c] = "body"]
    /\ UNCHANGED <<serverState, exitCode, tools, listed, apiKey, envKey, request, outbound,
                   fetches, raised, overlapped, outcome>>

FetchResolves(c) == FetchResolvesFrom(c, ResponsesFor(request[c].name))

\* fetch rejects (network failure): the handler throws at its await
FetchRejects(c) ==
    /\ pc[c] = "fetch"
    /\ Settle(c, Throw(FetchError))
    /\ UNCHANGED <<serverState, exitCode, tools, listed, apiKey, envKey, request, outbound,
                   fetches, response, overlapped>>

\* response.json() settles (response.text() on the error path of
\* handlePlaceDetails) and the handler runs to its return
BodyRead(c) ==
    /\ pc[c] = "body"
    /\ LET name == request[c].name
           resp == response[Invocation(c)]
       IN  IF name = "maps_place_details" /\ ~ ResponseOk(resp)
           THEN \E readFailed \in BOOLEAN : Settle(c, PlaceDetailsHttpError(resp, readFailed))
           ELSE IF IsJsonText(resp.body)
           THEN Settle(c, AfterBody(name, request[c].arguments, resp, resp.body.json))
           ELSE Settle(c, Throw(JsonParseError))
    /\ UNCHANGED <<serverState, exitCode, tools, listed, apiKey, envKey, request, outbound,
                   fetches, response, overlapped>>

\* the transport sends the result and the call is over
Reply(c) ==
    /\ pc[c] = "done"
    /\ pc' = [pc EXCEPT ![c] = "idle"]
    /\ request' = [request EXCEPT ![c] = [name |-> "", arguments |-> Undefined]]
    /\ outbound' = [outbound EXCEPT ![c] = NoRequest]
    /\ fetches' = [fetches EXCEPT ![c] = 0]
    /\ response' = [response EXCEPT ![c] = NoResponse]
    /\ raised' = [raised EXCEPT ![c] = ""]
    /\ overlapped' = [overlapped EXCEPT ![c] = FALSE]
    /\ outcome' = [outcome EXCEPT ![c] = Pending]
    /\ UNCHANGED <<serverState, exitCode, tools, listed, apiKey, envKey>>

Next ==
    \/ Startup
    \/ ListTools
    \/ ListReply
    \/ \E c \in Calls : CallTool(c)
    \/ \E c \in Calls : FetchResolves(c)
    \/ \E c \in Calls : FetchRejects(c)
    \/ \E c \in Calls : BodyRead(c)
    \/ \E c \in Calls : Reply(c)

Spec == Init /\ [][Next]_vars

-----------------------------------------------------------------------------
(* Two calls open at once: the handlers are async functions, so a second
   request can be served while the first is suspended at an await *)

ConcurrentCalls == {"c1", "c2"}

ConcurrentRequests ==
    {[name |-> "maps_geocode", arguments |-> Obj([address |-> Str("1600 Amphitheatre Parkway")])],
     [name |-> "maps_geocode", arguments |-> Undefined],
     [name |-> "maps_distance_matrix",
      arguments |-> Obj([origins |-> Arr(<<AddressA>>), destinations |-> Arr(<<AddressB>>)])],
     [name |-> "maps_distance_matrix",
      arguments |-> Obj([origins |-> Arr(<<AddressA, CoordC>>),
                         destinations |-> Arr(<<AddressB>>)])],
     [name |-> "maps_nonexistent", arguments |-> Undefined]}

ConcurrentResponsesFor(name) ==
    IF name = "maps_geocode"
    THEN {HttpResponse(200, "OK", JsonBody(Obj([status |-> Str("OK"),
                                                results |-> Arr(<<LegacyResult(k)>>)]))) :
            k \in 1..2}
         \cup {HttpResponse(200, "OK", JsonBody(Obj([status |-> Str("ZERO_RESULTS"),
                                                     results |-> Arr(<<>>)]))),
               HttpResponse(503, "Service Unavailable", HtmlBody)}
    ELSE {HttpResponse(200, "OK", JsonBody(Arr(<<
              Obj([originIndex |-> Num(0), destinationIndex |-> Num(0),
                   duration |-> CharsOf(d), distanceMeters |-> Num(1500)])>>))) :
            d \in {"75s", "90s"}}
         \cup {HttpResponse(200, "OK", JsonBody(Arr(<<>>))),
               HttpResponse(403, "Forbidden",
                            JsonBody(Obj([error |-> Obj([message |-> Str("API key not valid")])])))}

InitConcurrent == InitOver(ConcurrentCalls)

NextConcurrent ==
    \/ Startup
    \/ ListTools
    \/ ListReply
    \/ \E c \in ConcurrentCalls : CallToolFrom(c, ConcurrentRequests)
    \/ \E c \in ConcurrentCalls : FetchResolvesFrom(c, ConcurrentResponsesFor(request[c].name))
    \/ \E c \in ConcurrentCalls : FetchRejects(c)
    \/ \E c \in ConcurrentCalls : BodyRead(c)
    \/ \E c \in ConcurrentCalls : Reply(c)

SpecConcurrent == InitConcurrent /\ [][NextConcurrent]_vars

-----------------------------------------------------------------------------
(* Properties *)

\* the result a settled call returned
ResultOf(c) == outcome[c].result
TextOf(c) == ResultOf(c).content[1].text
Done(c) == pc[c] = "done"

RegisteredNames ==
    {"maps_geocode", "maps_reverse_geocode", "maps_search_places", "maps_place_details",
     "maps_distance_matrix", "maps_elevation", "maps_directions"}

\* C1: a call whose tool name is none of the seven registered names returns
\* isError = true with the single text item "Unknown tool: <name>", and no
\* HTTP request is issued for it.
C1_UnknownTool ==
    \A c \in Calls :
        (pc[c] # "idle" /\ request[c].name \notin RegisteredNames) =>
            /\ Done(c)
            /\ Returned(outcome[c])
            /\ ResultOf(c).isError = TRUE
            /\ ResultOf(c).content
                  = <<[type |-> "text", text |-> Str("Unknown tool: " \o request[c].name)]>>
            /\ fetches[c] = 0
            /\ outbound[c] = NoRequest

C1_Witness ==
    \E c \in Calls : Done(c) /\ request[c].name = "maps_nonexistent"
                        /\ TextOf(c) = Str("Unknown tool: maps_nonexistent")

\* C2: whatever exception a call raises (missing argument bag, network
\* failure, unparsable body, a field access on an absent part of the body),
\* the handler returns isError = true with the exception's message; it never
\* rejects and the process keeps running.
C2_ExceptionsBecomeResults ==
    \A c \in Calls :
        /\ ~ Rejected(outcome[c])
        /\ pc[c] # "idle" => serverState = "running"
        /\ (Done(c) /\ raised[c] # "") =>
              /\ Returned(outcome[c])
              /\ ResultOf(c).isError = TRUE
              /\ TextOf(c) \in {Str("Error: " \o raised[c]),
                                Str("Place details request failed: " \o raised[c])}

\* an upstream body with status "OK" and an empty results list made
\* results[0].geometry fail
C2_Witness ==
    \E c \in Calls :
        /\ Done(c) /\ request[c].name = "maps_geocode"
        /\ response[c].received /\ IsJsonText(response[c].body)
        /\ response[c].body.json = Obj([status |-> Str("OK"), results |-> Arr(<<>>)])
        /\ raised[c] = ReadError(Undefined, "geometry")
        /\ ResultOf(c).isError = TRUE

LegacyNames == {"maps_geocode", "maps_reverse_geocode", "maps_elevation"}

\* the upstream service accepted the call: a 2xx response whose body is JSON,
\* carries no error object (on the body or on the first element of a list)
\* and, for the legacy services, has status "OK"
UpstreamAccepted(c) ==
    /\ response[c].received
    /\ ResponseOk(response[c])
    /\ IsJsonText(response[c].body)
    /\ LET data == response[c].body.json IN
       /\ ~ IsNullish(data)
       /\ IsUndefined(Get(data, "error"))
       /\ IsUndefined(OptGet(At(data, 0), "error"))
       /\ request[c].name \in LegacyNames => Get(data, "status") = Str("OK")

\* C3: every result has the ToolResult shape, one text item whose text is a
\* string and a boolean isError; isError is false only when the upstream
\* call was accepted.
C3_ResultShape ==
    \A c \in Calls :
        Returned(outcome[c]) =>
            /\ DOMAIN ResultOf(c) = {"content", "isError"}
            /\ Len(ResultOf(c).content) = 1
            /\ DOMAIN ResultOf(c).content[1] = {"type", "text"}
            /\ ResultOf(c).content[1].type = "text"
            /\ IsString(TextOf(c))
            /\ ResultOf(c).isError \in BOOLEAN
            /\ ResultOf(c).isError = FALSE => UpstreamAccepted(c)

C3_Witness ==
    \E c \in Calls :
        /\ Done(c) /\ request[c].name = "maps_geocode"
        /\ ResultOf(c).isError = FALSE
        /\ TextOf(c) = Stringify(Obj([location |-> Obj([lat |-> Num(38), lng |-> Num(-122)]),
                                      formatted_address |-> Str("Address 1"),
                                      place_id |-> Str("P1")]))

-----------------------------------------------------------------------------
(* Properties of the routing tools *)

RoutingNames == {"maps_distance_matrix", "maps_directions"}

\* the JSON value of the text of the result, and of the body sent
OutputOf(c) == TextOf(c).json
BodyOf(c) == outbound[c].body.json

\* call c of the tool returned a reshaped (isError = false) result
Reshaped(c, name) ==
    Done(c) /\ request[c].name = name /\ Returned(outcome[c]) /\ ResultOf(c).isError = FALSE

\* call c of the tool got an HTTP 200 response with a JSON body and has settled
Answered200(c, name) ==
    /\ Done(c) /\ request[c].name = name
    /\ response[c].received /\ response[c].status = 200 /\ IsJsonText(response[c].body)

DataOf(c) == response[c].body.json

\* the items of a route-matrix answer that is a list of elements, each
\* tagged with originIndex and destinationIndex
TaggedList(data) ==
    /\ IsArr(data)
    /\ \A k \in 1..Len(data.arr) :
          IsObj(data.arr[k]) /\ IsNum(Get(data.arr[k], "originIndex"))
              /\ IsNum(Get(data.arr[k], "destinationIndex"))

InRange(item, n, m) ==
    /\ Get(item, "originIndex").num \in 0..(n - 1)
    /\ Get(item, "destinationIndex").num \in 0..(m - 1)

\* C4: for N origins and M destinations and an HTTP 200 list of tagged
\* results, the rows matrix has N rows of M elements, no cell is null, every
\* cell is written exactly once and nothing is written out of range.
C4_MatrixComplete ==
    \A c \in Calls :
        (/\ Answered200(c, "maps_distance_matrix")
         /\ IsArr(Get(request[c].arguments, "origins"))
         /\ IsArr(Get(request[c].arguments, "destinations"))
         /\ TaggedList(DataOf(c))) =>
            LET n == Len(Get(request[c].arguments, "origins").arr)
                m == Len(Get(request[c].arguments, "destinations").arr)
                items == DataOf(c).arr
            IN  /\ \A k \in 1..Len(items) : InRange(items[k], n, m)
                /\ \A i \in 0..(n - 1), j \in 0..(m - 1) :
                      Cardinality({k \in 1..Len(items) :
                                      /\ Get(items[k], "originIndex") = Num(i)
                                      /\ Get(items[k], "destinationIndex") = Num(j)}) = 1
                /\ Returned(outcome[c]) /\ ResultOf(c).isError = FALSE
                /\ LET rows == Get(OutputOf(c), "rows").arr IN
                   /\ Len(rows) = n
                   /\ \A i \in 1..n :
                         /\ Len(Get(rows[i], "elements").arr) = m
                         /\ \A j \in 1..m : Get(rows[i], "elements").arr[j] # Null

\* \d{1,k}(\.\d+)? over the whole of s
PlainNumeral(s, k) ==
    LET n == LeadingIn(s, Digits) IN
    n >= 1 /\ n <= k /\ OptFraction(SubSeq(s, n + 1, Len(s)), Digits)

\* the value of the numeral s is at most limit
AtMost(s, limit) ==
    LET n == LeadingIn(s, Digits)
        whole == IntOf(SubSeq(s, 1, n))
    IN  whole < limit \/ (whole = limit /\ AllIn(SubSeq(s, n + 2, Len(s)), {"0"}))

\* the integer part of the numeral s is written without a leading zero
NoLeadingZero(s) == LeadingIn(s, Digits) = 1 \/ s[1] # "0"

\* the two numerals of "lat,lng" with the white space after the comma removed
LatPart(s) == SubSeq(s, 1, FirstIndex(s, ",") - 1)
LngPart(s) == DropLeading(SubSeq(s, FirstIndex(s, ",") + 1, Len(s)), Whitespace)

\* ^-?\d{1,2}(\.\d+)?,\s*-?\d{1,3}(\.\d+)?$ with lat in [-90,90], lng in [-180,180]
StatedPattern(s) ==
    /\ FirstIndex(s, ",") > 0
    /\ LET lat == StripSign(LatPart(s), {"-"})
           lng == StripSign(LngPart(s), {"-"})
       IN  /\ PlainNumeral(lat, 2) /\ PlainNumeral(lng, 3)
           /\ AtMost(lat, 90) /\ AtMost(lng, 180)

\* ^[-+]?\d{1,2}(\.\d+)?,\s*[-+]?\d{1,3}(\.\d+)?$ with no leading zero on
\* either integer part, lat in [-90,90] and lng in [-180,180]
SignedPattern(s) ==
    /\ FirstIndex(s, ",") > 0
    /\ LET lat == StripSign(LatPart(s), {"-", "+"})
           lng == StripSign(LngPart(s), {"-", "+"})
       IN  /\ PlainNumeral(lat, 2) /\ PlainNumeral(lng, 3)
           /\ NoLeadingZero(lat) /\ NoLeadingZero(lng)
           /\ AtMost(lat, 90) /\ AtMost(lng, 180)

IsLatLng(wp) == IsObj(wp) /\ DOMAIN wp.obj = {"location"}

\* the waypoint strings of the request of call c, each with the waypoint
\* sent for it in the body
SentWaypoints(c) ==
    LET args == request[c].arguments
        body == BodyOf(c)
    IN  IF request[c].name = "maps_directions"
        THEN {<<Get(args, "origin"), Get(body, "origin")>>,
              <<Get(args, "destination"), Get(body, "destination")>>}
        ELSE {<<Get(args, "origins").arr[i], Get(Get(body, "origins").arr[i], "waypoint")>> :
                    i \in 1..Len(Get(args, "origins").arr)}
             \cup {<<Get(args, "destinations").arr[i],
                     Get(Get(body, "destinations").arr[i], "waypoint")>> :
                    i \in 1..Len(Get(args, "destinations").arr)}

\* every string waypoint is sent as latLng exactly when Pattern holds of it,
\* and as its address otherwise
ClassifiedBy(Pattern(_)) ==
    \A c \in Calls :
        (outbound[c].sent /\ request[c].name \in RoutingNames) =>
            \A p \in SentWaypoints(c) :
                DOMAIN p[1] = {"chars"} =>
                    /\ IsLatLng(p[2]) <=> Pattern(p[1].chars)
                    /\ ~ Pattern(p[1].chars) => p[2] = Obj([address |-> p[1]])

\* C5 as stated: a waypoint string is sent as latLng exactly when it matches
\* ^-?\d{1,2}(\.\d+)?,\s*-?\d{1,3}(\.\d+)?$ with lat in [-90,90] and
\* lng in [-180,180]; every other string is sent as an address.
C5_StatedClassification == ClassifiedBy(StatedPattern)

\* C5 amended: a waypoint string is sent as latLng exactly when it matches
\* ^[-+]?\d{1,2}(\.\d+)?,\s*[-+]?\d{1,3}(\.\d+)?$ with no leading zero on
\* either integer part, lat in [-90,90] and lng in [-180,180]; every other
\* string is sent as an address.
C5_SignedClassification == ClassifiedBy(SignedPattern)

\* "+45.5,10" is sent as a coordinate pair
C5_Witness ==
    \E c \in Calls :
        /\ outbound[c].sent /\ request[c].name = "maps_directions"
        /\ Get(request[c].arguments, "origin") = CharsOf("+45.5,10")
        /\ IsLatLng(Get(BodyOf(c), "origin"))

\* the table of spec section 4.4, any value outside it giving 0
StatedPriceLevel(priceLevel) ==
    CASE priceLevel = Str("PRICE_LEVEL_FREE") -> Num(0)
      [] priceLevel = Str("PRICE_LEVEL_INEXPENSIVE") -> Num(1)
      [] priceLevel = Str("PRICE_LEVEL_MODERATE") -> Num(2)
      [] priceLevel = Str("PRICE_LEVEL_EXPENSIVE") -> Num(3)
      [] priceLevel = Str("PRICE_LEVEL_VERY_EXPENSIVE") -> Num(4)
      [] OTHER -> Num(0)

\* C6: the price_level of a place-details result is the number the table
\* gives for the upstream priceLevel, and 0 when priceLevel is absent or is
\* any string outside the table.
C6_PriceLevelTotal ==
    \A c \in Calls :
        Reshaped(c, "maps_place_details") =>
            Get(OutputOf(c), "price_level") = StatedPriceLevel(Get(DataOf(c), "priceLevel"))

\* the integer n of a duration string "<n>s"
SecondsOf(duration) == Num(IntOf(SubSeq(duration.chars, 1, Len(duration.chars) - 1)))

\* the last element of the answer for the cell of items[k] is items[k]
LastForCell(items, k) ==
    \A l \in (k + 1)..Len(items) :
        ~ (/\ Get(items[l], "originIndex") = Get(items[k], "originIndex")
           /\ Get(items[l], "destinationIndex") = Get(items[k], "destinationIndex"))

CellOf(c, item) ==
    Get(Get(OutputOf(c), "rows").arr[Get(item, "originIndex").num + 1], "elements")
        .arr[Get(item, "destinationIndex").num + 1]

\* the N and M of a distance-matrix call
OriginCount(c) == Len(Get(request[c].arguments, "origins").arr)
DestinationCount(c) == Len(Get(request[c].arguments, "destinations").arr)

\* the steps of the first leg of an upstream route
StepsOf(route) ==
    LET legSteps == OptGet(At(Get(route, "legs"), 0), "steps") IN
    IF IsArr(legSteps) THEN legSteps.arr ELSE <<>>

\* C7: an upstream duration string "<n>s" is reported with duration.value
\* equal to the integer n, in a matrix element, in a route and in a step
\* (whose duration string is its staticDuration), whichever other fields
\* the item has.
C7_DurationValue ==
    \A c \in Calls :
        /\ (Reshaped(c, "maps_distance_matrix") /\ TaggedList(DataOf(c))) =>
              \A k \in 1..Len(DataOf(c).arr) :
                  LET item == DataOf(c).arr[k] IN
                  (/\ InRange(item, OriginCount(c), DestinationCount(c))
                   /\ LastForCell(DataOf(c).arr, k)
                   /\ ~ IsUndefined(Get(item, "duration"))) =>
                      Get(Get(CellOf(c, item), "duration"), "value")
                          = SecondsOf(Get(item, "duration"))
        /\ (Reshaped(c, "maps_directions") /\ IsArr(Get(DataOf(c), "routes"))) =>
              \A r \in 1..Len(Get(DataOf(c), "routes").arr) :
                  LET route == Get(DataOf(c), "routes").arr[r] IN
                  /\ ~ IsUndefined(Get(route, "duration")) =>
                        Get(Get(Get(OutputOf(c), "routes").arr[r], "duration"), "value")
                            = SecondsOf(Get(route, "duration"))
                  /\ \A k \in 1..Len(StepsOf(route)) :
                        ~ IsUndefined(Get(StepsOf(route)[k], "staticDuration")) =>
                            Get(Get(Get(Get(OutputOf(c), "routes").arr[r], "steps").arr[k],
                                    "duration"), "value")
                                = SecondsOf(Get(StepsOf(route)[k], "staticDuration"))

\* C8: an HTTP 200 answer whose elements lack duration or distance is
\* reshaped and never raises: a missing duration is reported as the text
\* "Unknown duration" with value 0, a missing distance as the text
\* "Unknown distance".
C8_AbsentFieldsTolerated ==
    \A c \in Calls :
        /\ (/\ Answered200(c, "maps_distance_matrix")
            /\ TaggedList(DataOf(c))
            /\ \A k \in 1..Len(DataOf(c).arr) :
                  InRange(DataOf(c).arr[k], OriginCount(c), DestinationCount(c))) =>
              /\ Returned(outcome[c]) /\ ResultOf(c).isError = FALSE
              /\ \A k \in 1..Len(DataOf(c).arr) :
                    LET item == DataOf(c).arr[k] IN
                    LastForCell(DataOf(c).arr, k) =>
                        /\ IsUndefined(Get(item, "duration")) =>
                              Get(CellOf(c, item), "duration")
                                  = Obj([text |-> Str("Unknown duration"), value |-> Num(0)])
                        /\ IsUndefined(Get(item, "distanceMeters")) =>
                              Get(Get(CellOf(c, item), "distance"), "text")
                                  = Str("Unknown distance")
        /\ (Answered200(c, "maps_directions") /\ IsArr(Get(DataOf(c), "routes"))
                /\ Len(Get(DataOf(c), "routes").arr) > 0) =>
              /\ Returned(outcome[c]) /\ ResultOf(c).isError = FALSE
              /\ \A r \in 1..Len(Get(DataOf(c), "routes").arr) :
                    LET route == Get(DataOf(c), "routes").arr[r]
                        out == Get(OutputOf(c), "routes").arr[r]
                    IN  /\ IsUndefined(Get(route, "duration")) =>
                              Get(out, "duration")
                                  = Obj([text |-> Str("Unknown duration"), value |-> Num(0)])
                        /\ IsUndefined(Get(route, "distanceMeters")) =>
                              Get(Get(out, "distance"), "text") = Str("Unknown distance")

\* the table of spec section 4.5, a missing or unrecognised mode giving DRIVE
StatedTravelMode(mode) ==
    CASE mode = Str("driving") -> Str("DRIVE")
      [] mode = Str("walking") -> Str("WALK")
      [] mode = Str("bicycling") -> Str("BICYCLE")
      [] mode = Str("transit") -> Str("TRANSIT")
      [] mode = Str("two_wheeler") -> Str("TWO_WHEELER")
      [] OTHER -> Str("DRIVE")

\* C9: the travelMode sent upstream is the value the table gives for the
\* mode argument, and DRIVE when mode is missing or unrecognised.
C9_TravelModeTotal ==
    \A c \in Calls :
        (outbound[c].sent /\ request[c].name \in RoutingNames) =>
            Get(BodyOf(c), "travelMode") = StatedTravelMode(Get(request[c].arguments, "mode"))

\* C10: the body sent upstream has routingPreference, with the value
\* TRAFFIC_AWARE, exactly when the travelMode it carries is DRIVE or
\* TWO_WHEELER.
C10_RoutingPreference ==
    \A c \in Calls :
        (outbound[c].sent /\ request[c].name \in RoutingNames) =>
            LET body == BodyOf(c) IN
            /\ ~ IsUndefined(Get(body, "routingPreference"))
                  <=> Get(body, "travelMode") \in {Str("DRIVE"), Str("TWO_WHEELER")}
            /\ Get(body, "routingPreference") \in {Undefined, Str("TRAFFIC_AWARE")}

\* a two_wheeler matrix request goes out with routingPreference
C10_Witness ==
    \E c \in Calls :
        /\ outbound[c].sent /\ request[c].name = "maps_distance_matrix"
        /\ Get(request[c].arguments, "mode") = Str("two_wheeler")
        /\ Get(BodyOf(c), "travelMode") = Str("TWO_WHEELER")
        /\ Get(BodyOf(c), "routingPreference") = Str("TRAFFIC_AWARE")

-----------------------------------------------------------------------------
(* Properties of the place tools *)

\* the keys of the documented place-details object
PlaceDetailsKeys ==
    {"name", "place_id", "formatted_address", "formatted_phone_number",
     "international_phone_number", "website", "rating", "user_ratings_total", "url",
     "address_components", "geometry", "types", "primary_type", "editorial_summary",
     "icon", "icon_background_color", "plus_code", "business_status", "price_level",
     "opening_hours", "current_opening_hours", "reviews", "photos", "dine_in", "takeout",
     "delivery", "reservable", "serves_breakfast", "serves_lunch", "serves_dinner",
     "serves_brunch", "payment_options", "accessibility_options"}

\* the keys of one place of the documented search result
SearchPlaceKeys == {"name", "formatted_address", "location", "place_id", "rating", "types"}

\* the elements of the list under key k of the JSON object v, <<>> if none
ListAt(v, k) == IF IsObj(v) /\ IsArr(Get(v, k)) THEN Get(v, k).arr ELSE <<>>

\* C11: the keys of the serialized output of a successful call do not depend
\* on which optional upstream fields are present: place details always has
\* every documented key (place_id included) and every period has open.day
\* and open.time; every place of a search result has name,
\* formatted_address, location.lat, location.lng, place_id, rating and types.
C11_StableKeys ==
    \A c \in Calls :
        /\ Reshaped(c, "maps_place_details") =>
              /\ DOMAIN OutputOf(c).obj = PlaceDetailsKeys
              /\ LET periods == ListAt(Get(OutputOf(c), "opening_hours"), "periods") IN
                 \A i \in 1..Len(periods) :
                     DOMAIN Get(periods[i], "open").obj = {"day", "time"}
        /\ Reshaped(c, "maps_search_places") =>
              LET places == ListAt(OutputOf(c), "places") IN
              \A i \in 1..Len(places) :
                  /\ DOMAIN places[i].obj = SearchPlaceKeys
                  /\ DOMAIN Get(places[i], "location").obj = {"lat", "lng"}

-----------------------------------------------------------------------------
(* Properties of the legacy tools *)

\* call c of a legacy tool has settled on an upstream body that is a JSON object
LegacyAnswered(c) ==
    /\ Done(c) /\ request[c].name \in LegacyNames
    /\ response[c].received /\ IsJsonText(response[c].body)
    /\ IsObj(DataOf(c))

\* the <Operation> of the failure text of each legacy tool
OperationOf(name) ==
    CASE name = "maps_geocode" -> "Geocoding"
      [] name = "maps_reverse_geocode" -> "Reverse geocoding"
      [] name = "maps_elevation" -> "Elevation request"

\* "<Operation> failed: " followed by error_message when present and
\* non-empty, otherwise by the status
StatedFailureText(name, data) ==
    LET message == Get(data, "error_message") IN
    Str(OperationOf(name) \o " failed: "
        \o TemplateStr(IF ~ IsUndefined(message) /\ message # Str("")
                       THEN message ELSE Get(data, "status")))

\* the results the handler reads are there: a first result (with its
\* geometry for maps_geocode), a list of results for maps_elevation
ResultsReadable(name, data) ==
    LET results == Get(data, "results") IN
    /\ IsArr(results)
    /\ name = "maps_geocode" =>
          Len(results.arr) >= 1 /\ IsObj(Get(results.arr[1], "geometry"))
    /\ name = "maps_reverse_geocode" => Len(results.arr) >= 1

\* C12 as stated: a legacy tool returns isError = true exactly when the
\* status of the upstream body differs from "OK", then with the text
\* "<Operation> failed: <error_message or status>"; with status "OK" it
\* returns isError = false.
C12_StatusDecides ==
    \A c \in Calls :
        LegacyAnswered(c) =>
            /\ Returned(outcome[c])
            /\ ResultOf(c).isError = (Get(DataOf(c), "status") # Str("OK"))
            /\ Get(DataOf(c), "status") # Str("OK") =>
                  TextOf(c) = StatedFailureText(request[c].name, DataOf(c))

\* C12 amended: a legacy tool returns isError = true with the text
\* "<Operation> failed: <error_message or status>" when the status of the
\* upstream body differs from "OK"; with status "OK" it returns
\* isError = false exactly when the body carries the results the handler
\* reads, and otherwise isError = true with "Error: " and the message of the
\* exception the read raised.
C12_StatusAndResultsDecide ==
    \A c \in Calls :
        LegacyAnswered(c) =>
            LET name == request[c].name
                data == DataOf(c)
            IN  /\ Returned(outcome[c])
                /\ ResultOf(c).isError
                      = (Get(data, "status") # Str("OK") \/ ~ ResultsReadable(name, data))
                /\ Get(data, "status") # Str("OK") =>
                      TextOf(c) = StatedFailureText(name, data)
                /\ (Get(data, "status") = Str("OK") /\ ~ ResultsReadable(name, data)) =>
                      raised[c] # "" /\ TextOf(c) = Str("Error: " \o raised[c])

\* a reverse-geocode answer with status "OK" and no result is reported as
\* the error the read of its first result raised
C12_Witness ==
    \E c \in Calls :
        /\ LegacyAnswered(c) /\ request[c].name = "maps_reverse_geocode"
        /\ DataOf(c) = Obj([status |-> Str("OK"), results |-> Arr(<<>>)])
        /\ ResultOf(c).isError = TRUE
        /\ TextOf(c) = Str("Error: " \o ReadError(Undefined, "formatted_address"))

-----------------------------------------------------------------------------
(* Properties of the server *)

\* the argument bag is an object with every required property of the tool
WellFormed(name, args) ==
    IsObj(args) /\ RequiredArguments(name) \subseteq DOMAIN args.obj

\* C13: a call-tool request causes at most one outbound HTTP request over
\* its lifetime, whatever its outcome, and exactly one when the tool is
\* registered and its argument bag is well-formed; the single request of
\* maps_distance_matrix carries all N origins and all M destinations.
C13_OneRequest ==
    \A c \in Calls :
        /\ fetches[c] <= 1
        /\ outbound[c].sent <=> fetches[c] = 1
        /\ (/\ pc[c] # "idle" /\ request[c].name \in RegisteredNames
            /\ WellFormed(request[c].name, request[c].arguments)) => fetches[c] = 1
        /\ (outbound[c].sent /\ request[c].name = "maps_distance_matrix") =>
              /\ Len(Get(BodyOf(c), "origins").arr) = OriginCount(c)
              /\ Len(Get(BodyOf(c), "destinations").arr) = DestinationCount(c)

\* a matrix call of two origins and two destinations has failed upstream
\* after its one request
C13_Witness ==
    \E c \in Calls :
        /\ Done(c) /\ request[c].name = "maps_distance_matrix"
        /\ outbound[c].sent /\ Returned(outcome[c])
        /\ OriginCount(c) = 2 /\ DestinationCount(c) = 2
        /\ Len(Get(BodyOf(c), "origins").arr) = 2
        /\ ResultOf(c).isError = TRUE
        /\ fetches[c] = 1

\* no list-tools or call-tool request is being served or has sent anything
NothingServed ==
    /\ listed = NotListed
    /\ \A c \in Calls : pc[c] = "idle" /\ fetches[c] = 0 /\ outbound[c] = NoRequest

\* the environment value is unset or empty
KeyAbsent(env) == IsUndefined(env) \/ env = Str("")

\* C14: when GOOGLE_MAPS_API_KEY is unset or empty the process exits with a
\* failure status before any request is served and before any outbound HTTP
\* request; whenever a request is being served the API key is the non-empty
\* string read from the environment at startup.
C14_KeyOrExit ==
    /\ (serverState # "starting" /\ KeyAbsent(envKey)) =>
          serverState = "exited" /\ exitCode = Num(1)
    /\ serverState = "exited" => IsNum(exitCode) /\ exitCode # Num(0)
    /\ serverState # "running" => NothingServed
    /\ ~ NothingServed =>
          /\ DOMAIN apiKey = {"str"} /\ apiKey # Str("")
          /\ apiKey = envKey
          /\ exitCode = Undefined

\* the process has exited with status 1 on an empty key
C14_Witness ==
    /\ envKey = Str("")
    /\ serverState = "exited" /\ exitCode = Num(1)
    /\ NothingServed

\* the names of the seven tools in the documented order
StatedToolOrder ==
    <<"maps_geocode", "maps_reverse_geocode", "maps_search_places", "maps_place_details",
      "maps_distance_matrix", "maps_elevation", "maps_directions">>

\* C15: a list-tools request always returns the same ordered list of exactly
\* seven descriptors (geocode, reverse_geocode, search_places, place_details,
\* distance_matrix, elevation, directions), and no step of a list-tools or
\* call-tool request changes the list.
C15_ToolList ==
    /\ [](/\ [i \in 1..Len(tools) |-> tools[i].name] = StatedToolOrder
          /\ listed # NotListed => listed.tools = tools)
    /\ [][tools' = tools]_vars

\* the list is returned while a call that failed is still being answered
C15_Witness ==
    /\ listed # NotListed
    /\ Len(listed.tools) = 7
    /\ \E c \in Calls : Done(c) /\ Returned(outcome[c]) /\ ResultOf(c).isError = TRUE

-----------------------------------------------------------------------------
(* Properties of the place and geocoding tools *)

\* C16: maps_search_places returns isError = true only when the upstream
\* response is a rejection (a non-success HTTP status or a body with an error
\* object); an accepted response with no error object and no places field
\* gives isError = false with an empty places list.
C16_ZeroMatches ==
    \A c \in Calls :
        (/\ Done(c) /\ request[c].name = "maps_search_places"
         /\ response[c].received /\ IsJsonText(response[c].body) /\ IsObj(DataOf(c))) =>
            LET rejected == ~ ResponseOk(response[c]) \/ ~ IsUndefined(Get(DataOf(c), "error"))
            IN  /\ Returned(outcome[c])
                /\ ResultOf(c).isError = TRUE => rejected
                /\ (~ rejected /\ IsUndefined(Get(DataOf(c), "places"))) =>
                      /\ ResultOf(c).isError = FALSE
                      /\ OutputOf(c) = Obj([places |-> Arr(<<>>)])

\* C17: the body of the maps_search_places request has locationBias.circle
\* exactly when both a location and a radius are given (a radius of 0
\* included), with the center and radius given; otherwise it has only
\* textQuery.
C17_LocationBias ==
    \A c \in Calls :
        (outbound[c].sent /\ request[c].name = "maps_search_places") =>
            LET args == request[c].arguments
                location == Get(args, "location")
                radius == Get(args, "radius")
                given == ~ IsUndefined(location) /\ ~ IsUndefined(radius)
            IN  /\ Get(BodyOf(c), "textQuery") = Get(args, "query")
                /\ given =>
                      /\ DOMAIN BodyOf(c).obj = {"textQuery", "locationBias"}
                      /\ Get(BodyOf(c), "locationBias") = Obj([circle |-> Obj([
                            center |-> Obj([latitude |-> Get(location, "latitude"),
                                            longitude |-> Get(location, "longitude")]),
                            radius |-> radius])])
                /\ ~ given => DOMAIN BodyOf(c).obj = {"textQuery"}

\* the <photoRef> of a resource name places/<placeId>/photos/<photoRef>
PhotoRefOf(name) ==
    SubSeq(name, IndexOfStr(name, "/photos/") + Len("/photos/"), Len(name))

\* C18: the photo_reference of every photo named
\* places/<placeId>/photos/<photoRef> is <photoRef>, so two photos of one
\* place have different photo_reference values.
C18_PhotoReference ==
    \A c \in Calls :
        Reshaped(c, "maps_place_details") =>
            LET photos == ListAt(DataOf(c), "photos")
                out == ListAt(OutputOf(c), "photos")
            IN  /\ Len(out) = Len(photos)
                /\ \A i \in 1..Len(photos) :
                      Get(out[i], "photo_reference")
                          = Str(PhotoRefOf(Get(photos[i], "name").str))
                /\ \A i, j \in 1..Len(photos) :
                      Get(photos[i], "name") # Get(photos[j], "name") =>
                          Get(out[i], "photo_reference") # Get(out[j], "photo_reference")

\* exactly four decimal digits
IsHHMM(time) ==
    /\ DOMAIN time = {"str"}
    /\ Len(time.str) = 4
    /\ \A i \in 1..4 : SubSeq(time.str, i, i) \in Digits

\* C19: for every period of regularOpeningHours the output open.time, and
\* close.time when close is not null, is a string of exactly four decimal
\* digits, also when the open part or an hour / minute field is absent.
C19_PeriodTimes ==
    \A c \in Calls :
        Reshaped(c, "maps_place_details") =>
            LET periods == ListAt(Get(OutputOf(c), "opening_hours"), "periods") IN
            \A i \in 1..Len(periods) :
                /\ IsHHMM(Get(Get(periods[i], "open"), "time"))
                /\ ~ IsNull(Get(periods[i], "close")) =>
                      IsHHMM(Get(Get(periods[i], "close"), "time"))

-----------------------------------------------------------------------------
(* Independence of concurrent calls *)

\* the outcomes of a call served alone on the request req with the API key
\* key, resp being what its fetch gave (NoResponse when it rejected or was
\* never made)
ServedAlone(req, key, resp) ==
    IF req.name \notin RegisteredNames
    THEN {Return(ToolResult(Str("Unknown tool: " \o req.name), TRUE))}
    ELSE LET before == BeforeFetch(req.name, req.arguments, key)
             Caught(o) == CallToolCaught(HandlerSettles(req.name, o))
         IN  IF Rejected(before) THEN {Caught(before)}
             ELSE IF ~ resp.received THEN {Caught(Throw(FetchError))}
             ELSE IF req.name = "maps_place_details" /\ ~ ResponseOk(resp)
             THEN {Caught(PlaceDetailsHttpError(resp, f)) : f \in BOOLEAN}
             ELSE IF IsJsonText(resp.body)
             THEN {Caught(AfterBody(req.name, req.arguments, resp, resp.body.json))}
             ELSE {Caught(Throw(JsonParseError))}

\* C21: with two calls open at once and their awaits interleaved in any
\* order, the request a call sends and the result it returns are those of
\* the call served alone on its own tool name, its own arguments and its own
\* upstream response; a call holds a response only from its own fetch.
C21_CallsIndependent ==
    \A c \in DOMAIN pc :
        /\ response[c].received <=> pc[c] = "body" \/ (pc[c] = "done" /\ fetches[c] = 1
                                                        /\ raised[c] # FetchError)
        /\ outbound[c].sent =>
              outbound[c] = BeforeFetch(request[c].name, request[c].arguments, apiKey).result
        /\ pc[c] = "done" => outcome[c] \in ServedAlone(request[c], apiKey, response[c])
        /\ pc[c] # "done" => outcome[c] = Pending

\* two matrix calls overlapped, each suspended at its await while the other
\* ran, and each returned the duration of its own upstream answer
C21_Witness ==
    /\ DOMAIN pc = ConcurrentCalls
    /\ \A c \in ConcurrentCalls :
          /\ pc[c] = "done" /\ overlapped[c]
          /\ request[c].name = "maps_distance_matrix"
          /\ Returned(outcome[c]) /\ ResultOf(c).isError = FALSE
    /\ request["c1"] = request["c2"]
    /\ response["c1"] # response["c2"]
    /\ outcome["c1"] # outcome["c2"]

====
